---------------------------- MODULE Spec2Model ----------------------------
(***************************************************************************)
(* A model of the miller introspection library: the process-wide          *)
(* configuration, the result reporters, the generic dispatch core         *)
(* (has_elements, is_kind), the attribute classifiers and the module      *)
(* enumeration.  Every library call is one action: it evaluates the       *)
(* function on the caller's arguments and on the configuration of the     *)
(* moment, and records the function in `call` and what came back in       *)
(* `outcome`.                                                              *)
(***************************************************************************)
EXTENDS Naturals, Sequences, FiniteSets, TLC

VARIABLES
    RAISE_ERRORS,   \* configuration.RAISE_ERRORS, a Python bool
    MATCH_ALL,      \* configuration.MATCH_ALL, a Python bool
    configuration_RECURSIVE, \* configuration.RECURSIVE, a Python bool
    frames,         \* the activations of Inspector.__new__ under way
    defaults,       \* the contents of configuration's DEFAULT_LIST, _MAP, _NAME
    args,           \* the arguments the caller holds for its calls
    call,           \* the last library call made with them
    outcome         \* what that call did: a returned value or a raised error

vars ==
    <<RAISE_ERRORS, MATCH_ALL, configuration_RECURSIVE, frames, defaults, args, call, outcome>>

---------------------------------------------------------------------------
(* Python values and the two ways a call ends.                             *)

True == [py |-> "bool", b |-> TRUE]
False == [py |-> "bool", b |-> FALSE]
None == [py |-> "None"]
PyBool(b) == IF b THEN True ELSE False
PyList(s) == [py |-> "list", items |-> s]
\* A dict is its <<key, value>> pairs in insertion order.
PyDict(s) == [py |-> "dict", pairs |-> s]
PyStr(s) == [py |-> "str", s |-> s]
\* An argument the caller left out of the call.
Omitted == [py |-> "omitted"]

\* bool(v): None, False and empty containers are falsy.
Truthy(v) ==
    CASE v.py = "bool" -> v.b
      [] v.py = "None" -> FALSE
      [] v.py = "list" -> v.items # <<>>
      [] v.py = "dict" -> v.pairs # <<>>
      [] v.py = "str" -> v.s # ""

Return(v) == [tag |-> "return", val |-> v]
Raise(e, m) == [tag |-> "raise", exc |-> e, msg |-> m]
Raises(o) == o.tag = "raise"

Bools == {True, False}
Tri == {True, False, None}

---------------------------------------------------------------------------
(* The bounds of the model.                                                *)

MaxNames == 2
MaxMembers == 3

---------------------------------------------------------------------------
(* The targets: the classes and instances of the test suite, with one     *)
(* subclass.  ClassDict is vars(cls): the descriptor each class declares.  *)

Classes == {"TestClass", "TestDataclass", "Child"}
Instances == {"an_instance", "a_dataclass", "a_child"}
Items == Classes \cup Instances

AttributeNames ==
    {"a_dict", "a_classvar", "a_default", "list_something", "do_something",
     "do_something_with_class", "a_static", "nope"}

\* The names the longer name lists are drawn from: a data attribute, a
\* property, a method and a name that resolves nowhere.
ListNames == {"a_dict", "list_something", "do_something", "nope"}

__mro__(cls) ==
    CASE cls = "TestClass" -> <<"TestClass">>
      [] cls = "TestDataclass" -> <<"TestDataclass">>
      [] cls = "Child" -> <<"Child", "TestClass">>

\* vars(cls).get(name): "absent" stands for None.
ClassDict(cls, name) ==
    CASE cls = "TestClass" ->
            (CASE name = "a_classvar" -> "data"
               [] name = "list_something" -> "property"
               [] name = "do_something" -> "function"
               [] name = "do_something_with_class" -> "classmethod"
               [] OTHER -> "absent")
      [] cls = "TestDataclass" ->
            (CASE name = "a_classvar" -> "data"
               [] name = "a_default" -> "data"
               [] name = "list_something" -> "property"
               [] name = "do_something" -> "function"
               [] name = "do_something_with_class" -> "classmethod"
               [] OTHER -> "absent")
      [] cls = "Child" ->
            (CASE name = "a_static" -> "staticmethod"
               [] name = "do_something_with_class" -> "function"
               [] OTHER -> "absent")

\* item.__class__ for an instance.
ClassOf(item) ==
    CASE item = "an_instance" -> "TestClass"
      [] item = "a_dataclass" -> "TestDataclass"
      [] item = "a_child" -> "Child"
      [] OTHER -> item

\* vars(instance): the names set on the instance itself.
InstanceDict(item) ==
    CASE item = "an_instance" -> {"a_dict"}
      [] item = "a_dataclass" -> {"a_dict", "a_default"}
      [] item = "a_child" -> {"a_dict"}
      [] OTHER -> {}

isclass(item) == item \in Classes

\* The class-level lookup of the attribute protocol: the first class of the
\* method-resolution order that declares the name.
RECURSIVE MroFind(_, _)
MroFind(mro, name) ==
    IF mro = <<>> THEN "absent"
    ELSE IF ClassDict(Head(mro), name) # "absent"
         THEN ClassDict(Head(mro), name)
         ELSE MroFind(Tail(mro), name)

ClassLookup(cls, name) == MroFind(__mro__(cls), name)

\* getattr(item, name): what the lookup yields; kind "missing" stands for the
\* AttributeError of a failed lookup.  self is what a bound method is bound to.
Missing == [kind |-> "missing", self |-> "none", name |-> "none"]

\* The lookup itself, given what the class-level lookup found for the name.
Resolve(item, name, d) ==
    IF name = "__class__"
    THEN [kind |-> "class", self |-> IF isclass(item) THEN "type" ELSE ClassOf(item),
          name |-> name]
    ELSE IF isclass(item)
    THEN CASE d = "function" -> [kind |-> "function", self |-> "none", name |-> name]
           [] d = "staticmethod" -> [kind |-> "function", self |-> "none", name |-> name]
           [] d = "classmethod" -> [kind |-> "method", self |-> item, name |-> name]
           [] d = "property" -> [kind |-> "property", self |-> "none", name |-> name]
           [] d = "data" -> [kind |-> "data", self |-> "none", name |-> name]
           [] OTHER -> Missing
    ELSE CASE d = "property" -> [kind |-> "data", self |-> "none", name |-> name]
           [] name \in InstanceDict(item) -> [kind |-> "data", self |-> "none", name |-> name]
           [] d = "function" -> [kind |-> "method", self |-> item, name |-> name]
           [] d = "staticmethod" -> [kind |-> "function", self |-> "none", name |-> name]
           [] d = "classmethod" -> [kind |-> "method", self |-> ClassOf(item), name |-> name]
           [] d = "data" -> [kind |-> "data", self |-> "none", name |-> name]
           [] OTHER -> Missing

getattr(item, name) == Resolve(item, name, ClassLookup(ClassOf(item), name))

hasattr(item, name) == getattr(item, name).kind # "missing"

\* The item itself as a value handed to a checker.
ObjectValue(item) ==
    [kind |-> IF isclass(item) THEN "class" ELSE "instance", self |-> item, name |-> "none"]

---------------------------------------------------------------------------
(* configuration.py                                                        *)

DEFAULT_HAS == False
DEFAULT_IS == False
DEFAULT_LIST == PyList(<<>>)
DEFAULT_MAP == PyDict(<<>>)
DEFAULT_NAME == PyList(<<>>)

\* DEFAULT_LIST, DEFAULT_MAP and DEFAULT_NAME are three objects made when the
\* module is imported; every later reference reaches the same object.
InitialDefaults ==
    [DEFAULT_LIST |-> DEFAULT_LIST, DEFAULT_MAP |-> DEFAULT_MAP,
     DEFAULT_NAME |-> DEFAULT_NAME]

---------------------------------------------------------------------------
(* result.py: the reporters.                                               *)

\* report_has with the last-but-one branch falling through without a return.
report_has_no_default(value, raise_error, match_all, item, elements) ==
    IF ~Truthy(value) /\ Truthy(raise_error) /\ Truthy(match_all)
    THEN Raise("AttributeError", "At least one of elements is not in item")
    ELSE IF ~Truthy(value) /\ Truthy(raise_error)
    THEN Raise("AttributeError", "Some of elements are not in item")
    ELSE IF ~Truthy(value)
    THEN Return(None)
    ELSE Return(value)

report_has(value, raise_error, match_all, item, elements) ==
    IF ~Truthy(value) /\ Truthy(raise_error) /\ Truthy(match_all)
    THEN Raise("AttributeError", "At least one of elements is not in item")
    ELSE IF ~Truthy(value) /\ Truthy(raise_error)
    THEN Raise("AttributeError", "Some of elements are not in item")
    ELSE IF ~Truthy(value)
    THEN Return(DEFAULT_HAS)
    ELSE Return(value)

report_is(value, raise_error, item, kind) ==
    IF ~Truthy(value) /\ Truthy(raise_error) /\ kind = None
    THEN Raise("TypeError", "item failed the type check")
    ELSE IF ~Truthy(value) /\ Truthy(raise_error)
    THEN Raise("TypeError", "item is not kind type")
    ELSE IF ~Truthy(value)
    THEN Return(DEFAULT_IS)
    ELSE Return(value)

report_list(value, raise_error, match_all, item, elements) ==
    IF ~Truthy(value) /\ Truthy(raise_error) /\ Truthy(match_all)
    THEN Raise("AttributeError", "At least one of elements is not in item")
    ELSE IF ~Truthy(value) /\ Truthy(raise_error)
    THEN Raise("AttributeError", "Some of elements are not in item")
    ELSE IF ~Truthy(value)
    THEN Return(DEFAULT_LIST)
    ELSE Return(value)

\* report_map returning the default of report_list.
report_map_list_default(value, raise_error, match_all, item, elements) ==
    IF ~Truthy(value) /\ Truthy(raise_error) /\ Truthy(match_all)
    THEN Raise("AttributeError", "At least one of elements is not in item")
    ELSE IF ~Truthy(value) /\ Truthy(raise_error)
    THEN Raise("AttributeError", "Some of elements are not in item")
    ELSE IF ~Truthy(value)
    THEN Return(DEFAULT_LIST)
    ELSE Return(value)

report_map(value, raise_error, match_all, item, elements) ==
    IF ~Truthy(value) /\ Truthy(raise_error) /\ Truthy(match_all)
    THEN Raise("AttributeError", "At least one of elements is not in item")
    ELSE IF ~Truthy(value) /\ Truthy(raise_error)
    THEN Raise("AttributeError", "Some of elements are not in item")
    ELSE IF ~Truthy(value)
    THEN Return(DEFAULT_MAP)
    ELSE Return(value)

report_name(value, raise_error, match_all, item, elements) ==
    IF ~Truthy(value) /\ Truthy(raise_error) /\ Truthy(match_all)
    THEN Raise("AttributeError", "At least one of elements is not in item")
    ELSE IF ~Truthy(value) /\ Truthy(raise_error)
    THEN Raise("AttributeError", "Some of elements are not in item")
    ELSE IF ~Truthy(value)
    THEN Return(DEFAULT_NAME)
    ELSE Return(value)

---------------------------------------------------------------------------
(* base.py: the generic dispatch core.                                     *)

\* The builtins handed to is_kind as checker, applied the way is_kind applies
\* them: checker(item) when kind is None, checker(item, kind) otherwise.
\* isinstance needs two arguments and a type (never a str) as the second;
\* inspect.ismethod takes exactly one argument.
ApplyChecker(checker, item, kind) ==
    CASE checker = "isinstance" ->
            IF kind = None
            THEN Raise("TypeError", "isinstance expected 2 arguments, got 1")
            ELSE IF kind.py = "str"
            THEN Raise("TypeError", "isinstance() arg 2 must be a type")
            ELSE Return(False)
      [] checker = "inspect.ismethod" ->
            IF kind = None
            THEN Return(PyBool(item.kind = "method"))
            ELSE Raise("TypeError", "ismethod() takes 1 positional argument")
      [] checker = "hasattr" ->
            IF kind = None
            THEN Raise("TypeError", "hasattr expected 2 arguments, got 1")
            ELSE Return(PyBool(hasattr(item.self, kind.s)))

\* 'X if None else Y' is always Y: the argument is kept as passed, None too.
is_kind(checker, raise_error, item, kind) ==
    IF kind = Omitted
    THEN Raise("TypeError", "is_kind() missing 1 required positional argument: 'kind'")
    ELSE
    LET raise_error_1 == raise_error
        value == ApplyChecker(checker, item, kind)
    IN  IF value.tag = "raise" THEN value
        ELSE report_is(value.val, raise_error_1, item, kind)

\* all(...) and any(...) over the checker's outcomes, in order, stopping at the
\* first outcome that decides the result; an exception ends the scan.
RECURSIVE all(_)
all(rs) ==
    IF rs = <<>> THEN Return(True)
    ELSE IF Head(rs).tag = "raise" THEN Head(rs)
    ELSE IF ~Truthy(Head(rs).val) THEN Return(False)
    ELSE all(Tail(rs))

RECURSIVE any(_)
any(rs) ==
    IF rs = <<>> THEN Return(False)
    ELSE IF Head(rs).tag = "raise" THEN Head(rs)
    ELSE IF Truthy(Head(rs).val) THEN Return(True)
    ELSE any(Tail(rs))

---------------------------------------------------------------------------
(* attributes.py: the single-name classifiers.                             *)

is_attribute(item, attribute, raise_error) ==
    is_kind("isinstance", raise_error, ObjectValue(item), PyStr(attribute))

\* getattr(item, attribute) is evaluated before the call is made; the call
\* itself passes no 'kind'.
is_method(item, attribute, raise_error) ==
    IF ~hasattr(item, attribute)
    THEN Raise("AttributeError", "object has no attribute")
    ELSE is_kind("inspect.ismethod", raise_error, getattr(item, attribute), Omitted)

is_property(item, attribute, raise_error) ==
    LET raise_error_1 == IF raise_error = None THEN RAISE_ERRORS ELSE raise_error
        item_1 == IF isclass(item) THEN item ELSE ClassOf(item)
    IN  IF ~hasattr(item_1, attribute) /\ Truthy(raise_error_1)
        THEN Raise("AttributeError", "attribute is not an attribute of item")
        ELSE Return(PyBool(hasattr(item_1, attribute)
                           /\ getattr(item_1, attribute).kind = "property"))

is_variable(item, attribute, raise_error) ==
    LET raise_error_1 == IF raise_error = None THEN RAISE_ERRORS ELSE raise_error
        m == is_method(item, attribute, False)
        p == is_property(item, attribute, False)
    IN  IF ~hasattr(item, attribute) /\ Truthy(raise_error_1)
        THEN Raise("AttributeError", "attribute is not an attribute of item")
        ELSE IF ~hasattr(item, attribute) THEN Return(False)
        ELSE IF Raises(m) THEN m
        ELSE IF Truthy(m.val) THEN Return(False)
        ELSE IF Raises(p) THEN p
        ELSE Return(PyBool(~Truthy(p.val)))

is_class_attribute(item, attribute, raise_error) ==
    LET raise_error_1 == IF raise_error = None THEN RAISE_ERRORS ELSE raise_error
        item_1 == IF isclass(item) THEN item ELSE ClassOf(item)
    IN  IF ~hasattr(item_1, attribute) /\ Truthy(raise_error_1)
        THEN Raise("AttributeError", "attribute is not an attribute of item")
        ELSE Return(PyBool(hasattr(item_1, attribute)))

\* for cls in bound_to.__mro__: the first class whose vars() hold the name
\* decides; falling off the loop returns False.
RECURSIVE MroDescriptorIsClassmethod(_, _)
MroDescriptorIsClassmethod(mro, name) ==
    IF mro = <<>> THEN False
    ELSE IF ClassDict(Head(mro), name) # "absent"
         THEN PyBool(ClassDict(Head(mro), name) = "classmethod")
         ELSE MroDescriptorIsClassmethod(Tail(mro), name)

is_class_method(item, attribute, raise_error) ==
    LET raise_error_1 == IF raise_error = None THEN RAISE_ERRORS ELSE raise_error
        item_1 == IF isclass(item) THEN item ELSE ClassOf(item)
        m == is_method(item_1, attribute, None)
        method == getattr(item_1, attribute)
        bound_to == method.self
    IN  IF ~hasattr(item_1, attribute) /\ Truthy(raise_error_1)
        THEN Raise("AttributeError", "attribute is not an method of item")
        ELSE IF Raises(m) THEN m
        ELSE IF Truthy(m.val)
        THEN IF ~isclass(bound_to) THEN Return(False)
             ELSE Return(MroDescriptorIsClassmethod(__mro__(bound_to), method.name))
        ELSE Return(False)

is_class_variable(item, attribute, raise_error) ==
    LET raise_error_1 == IF raise_error = None THEN RAISE_ERRORS ELSE raise_error
        owner == IF isclass(item) THEN item ELSE ClassOf(item)
        m == is_method(item, attribute, False)
        p == is_property(owner, attribute, False)
    IN  IF ~hasattr(item, attribute) /\ Truthy(raise_error_1)
        THEN Raise("AttributeError", "attribute is not an attribute of item")
        ELSE IF ~hasattr(owner, attribute) THEN Return(False)
        ELSE IF Raises(m) THEN m
        ELSE IF Truthy(m.val) THEN Return(False)
        ELSE IF Raises(p) THEN p
        ELSE Return(PyBool(~Truthy(p.val)))

is_instance_attribute(item, attribute, raise_error) ==
    LET raise_error_1 == IF raise_error = None THEN RAISE_ERRORS ELSE raise_error
        owner == IF isclass(item) THEN item ELSE ClassOf(item)
        c == is_class_attribute(owner, attribute, False)
    IN  IF ~hasattr(item, attribute) /\ Truthy(raise_error_1)
        THEN Raise("AttributeError", "attribute is not an attribute of item")
        ELSE IF ~hasattr(item, attribute) THEN Return(False)
        ELSE IF Raises(c) THEN c
        ELSE Return(PyBool(~Truthy(c.val)))

is_instance_method(item, attribute, raise_error) ==
    LET raise_error_1 == IF raise_error = None THEN RAISE_ERRORS ELSE raise_error
        m == is_method(item, attribute, False)
        cm == is_class_method(item, attribute, False)
    IN  IF ~hasattr(item, attribute) /\ Truthy(raise_error_1)
        THEN Raise("AttributeError", "attribute is not an method of item")
        ELSE IF ~hasattr(item, attribute) THEN Return(False)
        ELSE IF Raises(m) THEN m
        ELSE IF ~Truthy(m.val) THEN Return(m.val)
        ELSE IF Raises(cm) THEN cm
        ELSE Return(PyBool(~Truthy(cm.val)))

is_instance_variable(item, attribute, raise_error) ==
    LET raise_error_1 == IF raise_error = None THEN RAISE_ERRORS ELSE raise_error
        owner == IF isclass(item) THEN item ELSE ClassOf(item)
        c == is_class_attribute(owner, attribute, False)
        m == is_method(item, attribute, False)
        p == is_property(item, attribute, False)
    IN  IF ~hasattr(item, attribute) /\ Truthy(raise_error_1)
        THEN Raise("AttributeError", "attribute is not an attribute of item")
        ELSE IF ~hasattr(item, attribute) THEN Return(False)
        ELSE IF Raises(c) THEN c
        ELSE IF Truthy(c.val) THEN Return(False)
        ELSE IF Raises(m) THEN m
        ELSE IF Truthy(m.val) THEN Return(False)
        ELSE IF Raises(p) THEN p
        ELSE Return(PyBool(~Truthy(p.val)))

---------------------------------------------------------------------------
(* Dataclass targets.  A target is a class or an instance together with    *)
(* the names its class body declares, in declaration order: a_dict and     *)
(* a_list are fields with a default_factory, _hidden is a field with a     *)
(* plain default, a_classvar is annotated ClassVar.                        *)

MaxFields == 3

FieldNames == {"a_dict", "_hidden", "a_classvar", "a_list"}

ClassVars == {"a_classvar"}

\* The declared names that the class itself carries as an attribute: a plain
\* default and a ClassVar stay on the class, a default_factory does not.
ClassLevel == {"_hidden", "a_classvar"}

is_dataclass(item) == item.kind \in {"dataclass", "dataclass_instance"}

\* [f.name for f in dataclasses.fields(item)]: ClassVar pseudo-fields are
\* left out, the order is the order of declaration.
dataclasses_fields(item) == SelectSeq(item.declared, LAMBDA n : n \notin ClassVars)

\* getattr(dataclasses, name) on the standard library module.
dataclasses_attribute(name) ==
    IF name \in {"is_dataclass", "fields", "field", "dataclass"}
    THEN Return(name)
    ELSE Raise("AttributeError", "module 'dataclasses' has no attribute")

\* hasattr(item, name) for a dataclass target.
FieldResolves(item, name) ==
    /\ \E i \in 1..Len(item.declared) : item.declared[i] = name
    /\ item.kind \in {"dataclass", "class"} => name \in ClassLevel

\* getattr(item, attribute) is evaluated first; is_kind is then called
\* without its 'kind' argument.
is_field(item, attribute, raise_error) ==
    IF ~FieldResolves(item, attribute)
    THEN Raise("AttributeError", "object has no attribute")
    ELSE is_kind("dataclasses.fields", raise_error, attribute, Omitted)

---------------------------------------------------------------------------
(* The package under src/src/miller: is_attribute through is_kind_class    *)
(* with hasattr as the checker.                                            *)

is_kind_class(item, checker, raise_error, kind) ==
    IF kind = Omitted
    THEN Raise("TypeError", "is_kind_class() missing 1 required positional argument: 'kind'")
    ELSE
    LET raise_error_1 == raise_error
        value == ApplyChecker(checker, item, kind)
    IN  IF value.tag = "raise" THEN value
        ELSE report_is(value.val, raise_error_1, item, kind)

src_is_attribute(item, attribute, raise_error) ==
    is_kind_class(ObjectValue(item), "hasattr", raise_error, PyStr(attribute))

\* is_method, is_property and is_object of the package under src/src/miller.
src_is_method(item, attribute, raise_error) ==
    IF ~hasattr(item, attribute)
    THEN Raise("AttributeError", "object has no attribute")
    ELSE is_kind_class(getattr(item, attribute), "inspect.ismethod", raise_error, Omitted)

src_is_property(item, attribute, raise_error) ==
    LET raise_error_1 == IF raise_error = None THEN RAISE_ERRORS ELSE raise_error
        item_1 == IF isclass(item) THEN item ELSE ClassOf(item)
    IN  IF ~hasattr(item_1, attribute) /\ Truthy(raise_error_1)
        THEN Raise("AttributeError", "attribute is not an attribute of item")
        ELSE Return(PyBool(hasattr(item_1, attribute)
                           /\ getattr(item_1, attribute).kind = "property"))

src_is_object(item, attribute, raise_error) ==
    LET raise_error_1 == IF raise_error = None THEN RAISE_ERRORS ELSE raise_error
        m == src_is_method(item, attribute, False)
        p == src_is_property(item, attribute, False)
    IN  IF ~hasattr(item, attribute) /\ Truthy(raise_error_1)
        THEN Raise("AttributeError", "attribute is not an attribute of item")
        ELSE IF ~hasattr(item, attribute) THEN Return(False)
        ELSE IF Raises(m) THEN m
        ELSE IF Truthy(m.val) THEN Return(False)
        ELSE IF Raises(p) THEN p
        ELSE Return(PyBool(~Truthy(p.val)))

---------------------------------------------------------------------------
(* base.has_elements and the composite checks built on it.                 *)

\* checker(item, a, raise_error = False) for the classifier handed over.
Checker(checker, item, a, raise_error) ==
    CASE checker = "is_attribute" -> is_attribute(item, a, raise_error)
      [] checker = "is_method" -> is_method(item, a, raise_error)
      [] checker = "is_property" -> is_property(item, a, raise_error)
      [] checker = "src_is_attribute" -> src_is_attribute(item, a, raise_error)
      [] checker = "src_is_method" -> src_is_method(item, a, raise_error)
      [] checker = "src_is_property" -> src_is_property(item, a, raise_error)
      [] checker = "src_is_object" -> src_is_object(item, a, raise_error)
      [] checker = "is_field" -> is_field(item, a, raise_error)

\* has_elements with the two scopes exchanged: any if match_all else all.
has_elements_scope_swapped(checker, raise_error, match_all, item, elements) ==
    LET rs == [i \in 1..Len(elements) |-> Checker(checker, item, elements[i], False)]
        value == IF Truthy(match_all) THEN any(rs) ELSE all(rs)
    IN  IF Raises(value) THEN value
        ELSE report_has(value.val, raise_error, match_all, item, elements)

\* Both 'X if None else Y' lines keep the arguments as passed; a match_all of
\* None is falsy, so scope is any.
has_elements(checker, raise_error, match_all, item, elements) ==
    LET raise_error_1 == raise_error
        match_all_1 == match_all
        rs == [i \in 1..Len(elements) |-> Checker(checker, item, elements[i], False)]
        value == IF Truthy(match_all_1) THEN all(rs) ELSE any(rs)
    IN  IF Raises(value) THEN value
        ELSE report_has(value.val, raise_error_1, match_all_1, item, elements)

has_attributes(item, attributes, raise_error, match_all) ==
    has_elements("is_attribute", raise_error, match_all, item, attributes)

has_methods(item, methods, raise_error, match_all) ==
    has_elements("is_method", raise_error, match_all, item, methods)

has_properties(item, properties, raise_error, match_all) ==
    has_elements("is_property", raise_error, match_all, item, properties)

src_has_attributes(item, attributes, raise_error, match_all) ==
    has_elements("src_is_attribute", raise_error, match_all, item, attributes)

src_has_methods(item, attributes, raise_error, match_all) ==
    has_elements("src_is_method", raise_error, match_all, item, attributes)

src_has_properties(item, attributes, raise_error, match_all) ==
    has_elements("src_is_property", raise_error, match_all, item, attributes)

src_has_objects(item, attributes, raise_error, match_all) ==
    has_elements("src_is_object", raise_error, match_all, item, attributes)

\* 'names or []': None and the empty list both give the empty list.
OrEmpty(names) == IF Truthy(names) THEN names.items ELSE <<>>

\* Python's 'x and y': x when x raised or is falsy, else y.
And(x, y) == IF Raises(x) \/ ~Truthy(x.val) THEN x ELSE y

\* has_traits joining its composite checks with 'or'.
has_traits_any_kind(item, attributes, methods, properties, raise_error, match_all) ==
    LET a == has_attributes(item, OrEmpty(attributes), raise_error, match_all)
        m == has_methods(item, OrEmpty(methods), raise_error, match_all)
        p == has_properties(item, OrEmpty(properties), raise_error, match_all)
        Or(x, y) == IF Raises(x) \/ Truthy(x.val) THEN x ELSE y
    IN  Or(a, Or(m, p))

has_traits(item, attributes, methods, properties, raise_error, match_all) ==
    LET attributes_1 == OrEmpty(attributes)
        methods_1 == OrEmpty(methods)
        properties_1 == OrEmpty(properties)
    IN  And(has_attributes(item, attributes_1, raise_error, match_all),
            And(has_methods(item, methods_1, raise_error, match_all),
                has_properties(item, properties_1, raise_error, match_all)))

src_has_traits(item, attributes, methods, properties, objects, raise_error, match_all) ==
    LET attributes_1 == OrEmpty(attributes)
        methods_1 == OrEmpty(methods)
        properties_1 == OrEmpty(properties)
        objects_1 == OrEmpty(objects)
    IN  And(src_has_attributes(item, attributes_1, raise_error, match_all),
            And(src_has_methods(item, methods_1, raise_error, match_all),
                And(src_has_properties(item, properties_1, raise_error, match_all),
                    src_has_objects(item, objects_1, raise_error, match_all))))

---------------------------------------------------------------------------
(* The state machine: the caller holds arguments, sets the globals and     *)
(* calls the library.                                                      *)

\* Lists of at most MaxNames names, and every single name.
NameLists ==
    UNION {[1..k -> ListNames] : k \in 0..MaxNames}
        \cup {<<a>> : a \in AttributeNames}

\* Values handed to the reporters: booleans, lists and mappings, empty or not.
ReportValues ==
    {True, False, None, PyList(<<>>), PyList(<<"a_dict">>), PyDict(<<>>),
     PyDict(<<<<"a_dict", "tree">>>>)}

NoCall == [fn |-> "none", kind |-> None]

\* A call is logged with the function called.
Invoke(fn, kind, result) ==
    /\ call' = [fn |-> fn, kind |-> kind]
    /\ outcome' = result
    /\ UNCHANGED <<RAISE_ERRORS, MATCH_ALL, configuration_RECURSIVE, frames, defaults, args>>

\* The arguments of a call on a target, and of a call to a reporter.
TargetArgs ==
    [item : Items, names : NameLists, value : {None},
     raise_error : Tri, match_all : Tri]

ReporterArgs ==
    [item : {"none"}, names : {<<>>}, value : ReportValues,
     raise_error : Tri, match_all : Tri]

OnTarget == args.item # "none"
OnName == OnTarget /\ Len(args.names) = 1

Init ==
    /\ RAISE_ERRORS = True
    /\ MATCH_ALL = True
    /\ configuration_RECURSIVE = False
    /\ frames = <<>>
    /\ defaults = InitialDefaults
    /\ args \in TargetArgs \cup ReporterArgs
    /\ call = NoCall
    /\ outcome = Return(None)

set_RAISE_ERRORS ==
    \E b \in Bools :
        /\ RAISE_ERRORS' = b
        /\ UNCHANGED <<MATCH_ALL, configuration_RECURSIVE, frames, defaults, args, call, outcome>>

set_MATCH_ALL ==
    \E b \in Bools :
        /\ MATCH_ALL' = b
        /\ UNCHANGED <<RAISE_ERRORS, configuration_RECURSIVE, frames, defaults, args, call, outcome>>

Call_has_attributes ==
    /\ OnTarget
    /\ Invoke("has_attributes", None,
              has_attributes(args.item, args.names, args.raise_error, args.match_all))

Call_has_methods ==
    /\ OnTarget
    /\ Invoke("has_methods", None,
              has_methods(args.item, args.names, args.raise_error, args.match_all))

Call_has_properties ==
    /\ OnTarget
    /\ Invoke("has_properties", None,
              has_properties(args.item, args.names, args.raise_error, args.match_all))

Call_src_has_attributes ==
    /\ OnTarget
    /\ Invoke("src_has_attributes", None,
              src_has_attributes(args.item, args.names, args.raise_error, args.match_all))

Call_is_attribute ==
    /\ OnName
    /\ Invoke("is_attribute", None,
              is_attribute(args.item, args.names[1], args.raise_error))

Call_src_is_attribute ==
    /\ OnName
    /\ Invoke("src_is_attribute", None,
              src_is_attribute(args.item, args.names[1], args.raise_error))

Call_is_method ==
    /\ OnName
    /\ Invoke("is_method", None,
              is_method(args.item, args.names[1], args.raise_error))

Call_is_property ==
    /\ OnName
    /\ Invoke("is_property", None,
              is_property(args.item, args.names[1], args.raise_error))

Call_is_variable ==
    /\ OnName
    /\ Invoke("is_variable", None,
              is_variable(args.item, args.names[1], args.raise_error))

Call_is_class_attribute ==
    /\ OnName
    /\ Invoke("is_class_attribute", None,
              is_class_attribute(args.item, args.names[1], args.raise_error))

Call_is_class_method ==
    /\ OnName
    /\ Invoke("is_class_method", None,
              is_class_method(args.item, args.names[1], args.raise_error))

Call_is_class_variable ==
    /\ OnName
    /\ Invoke("is_class_variable", None,
              is_class_variable(args.item, args.names[1], args.raise_error))

Call_is_instance_attribute ==
    /\ OnName
    /\ Invoke("is_instance_attribute", None,
              is_instance_attribute(args.item, args.names[1], args.raise_error))

Call_is_instance_method ==
    /\ OnName
    /\ Invoke("is_instance_method", None,
              is_instance_method(args.item, args.names[1], args.raise_error))

Call_is_instance_variable ==
    /\ OnName
    /\ Invoke("is_instance_variable", None,
              is_instance_variable(args.item, args.names[1], args.raise_error))

Call_report_has ==
    /\ ~OnTarget
    /\ Invoke("report_has", None,
              report_has(args.value, args.raise_error, args.match_all, args.item, args.names))

Call_report_is ==
    /\ ~OnTarget
    /\ \E kind \in {None, PyStr("a_dict")} :
          Invoke("report_is", kind,
                 report_is(args.value, args.raise_error, args.item, kind))

Call_report_list ==
    /\ ~OnTarget
    /\ Invoke("report_list", None,
              report_list(args.value, args.raise_error, args.match_all, args.item, args.names))

Call_report_map ==
    /\ ~OnTarget
    /\ Invoke("report_map", None,
              report_map(args.value, args.raise_error, args.match_all, args.item, args.names))

Call_report_name ==
    /\ ~OnTarget
    /\ Invoke("report_name", None,
              report_name(args.value, args.raise_error, args.match_all, args.item, args.names))

Next ==
    \/ set_RAISE_ERRORS
    \/ set_MATCH_ALL
    \/ Call_has_attributes
    \/ Call_has_methods
    \/ Call_has_properties
    \/ Call_src_has_attributes
    \/ Call_is_attribute
    \/ Call_src_is_attribute
    \/ Call_is_method
    \/ Call_is_property
    \/ Call_is_variable
    \/ Call_is_class_attribute
    \/ Call_is_class_method
    \/ Call_is_class_variable
    \/ Call_is_instance_attribute
    \/ Call_is_instance_method
    \/ Call_is_instance_variable
    \/ Call_report_has
    \/ Call_report_is
    \/ Call_report_list
    \/ Call_report_map
    \/ Call_report_name

Spec == Init /\ [][Next]_vars

---------------------------------------------------------------------------
(* modules.py: enumeration of the members of a module.  A module is its    *)
(* __name__ and the names bound in its namespace, in declaration order.    *)

\* The names a module of the model may bind, in the order of Python's string
\* comparison (upper case, then '_', then lower case): the order in which
\* inspect.getmembers returns them.  "__name__" is in every module.
MemberOrder ==
    <<"A_CONSTANT", "DummyClass", "DummyDataclass", "Path", "_PrivateClass",
      "__name__", "_private_function", "dataclass", "dummy_function">>

MemberNames == {MemberOrder[i] : i \in DOMAIN MemberOrder} \ {"__name__"}

\* inspect.isclass / inspect.isfunction of the object bound to the name.
MemberKind(name) ==
    CASE name \in {"DummyClass", "DummyDataclass", "Path", "_PrivateClass"} -> "class"
      [] name \in {"dummy_function", "_private_function", "dataclass"} -> "function"
      [] OTHER -> "data"

\* The object's __module__; "missing" when the object has no such attribute
\* (an int, a str).
MemberModule(name) ==
    CASE name = "Path" -> "pathlib"
      [] name = "dataclass" -> "dataclasses"
      [] MemberKind(name) = "data" -> "missing"
      [] OTHER -> "dummy_module"

IsPrivate(name) ==
    name \in {"_PrivateClass", "_private_function", "__name__", "__class__", "_hidden"}

\* The names bound in the module.
Namespace(item) == {item.members[i] : i \in DOMAIN item.members} \cup {"__name__"}

\* getmembers keeping the order in which the module binds the names.
getmembers_declared(item, predicate) ==
    LET Keep(name) ==
            \/ predicate = "None"
            \/ predicate = "inspect.isclass" /\ MemberKind(name) = "class"
            \/ predicate = "inspect.isfunction" /\ MemberKind(name) = "function"
    IN  SelectSeq(<<"__name__">> \o item.members, Keep)

\* inspect.getmembers(item, predicate): the bound names that satisfy the
\* predicate, sorted by name.  predicate None keeps every name.
getmembers(item, predicate) ==
    LET Keep(name) ==
            /\ name \in Namespace(item)
            /\ \/ predicate = "None"
               \/ predicate = "inspect.isclass" /\ MemberKind(name) = "class"
               \/ predicate = "inspect.isfunction" /\ MemberKind(name) = "function"
    IN  SelectSeq(MemberOrder, Keep)

\* camina.drop_privates on a dict: the entries whose key begins with '_' go.
drop_privates(pairs) ==
    LET Public(pair) == ~IsPrivate(pair[1]) IN SelectSeq(pairs, Public)

\* _get_object_mapping without the comparison of __module__ with the module's
\* __name__: every member that passes the predicate is kept.
_get_object_mapping_no_owner(item, predicate, include_private) ==
    LET members == getmembers(item, predicate)
        objects == [i \in DOMAIN members |-> <<members[i], members[i]>>]
    IN  IF ~include_private
        THEN Return(PyDict(drop_privates(objects)))
        ELSE Return(PyDict(objects))

\* The comprehension reads m[1].__module__ of each member in turn; a member
\* without that attribute ends it with an AttributeError.
_get_object_mapping(item, predicate, include_private) ==
    LET members == getmembers(item, predicate)
        Own(name) == MemberModule(name) = item.__name__
        owned == SelectSeq(members, Own)
        objects == [i \in DOMAIN owned |-> <<owned[i], owned[i]>>]
    IN  IF \E i \in DOMAIN members : MemberModule(members[i]) = "missing"
        THEN Raise("AttributeError", "object has no attribute '__module__'")
        ELSE IF ~include_private
        THEN Return(PyDict(drop_privates(objects)))
        ELSE Return(PyDict(objects))

map_classes(item, include_private) ==
    _get_object_mapping(item, "inspect.isclass", include_private)

map_functions(item, include_private) ==
    _get_object_mapping(item, "inspect.isfunction", include_private)

map_objects(item, include_private) ==
    _get_object_mapping(item, "None", include_private)

\* list(mapping.keys()) and list(mapping.values()) of a call's result.
KeysOf(r) ==
    IF Raises(r) THEN r
    ELSE Return(PyList([i \in DOMAIN r.val.pairs |-> r.val.pairs[i][1]]))

ValuesOf(r) ==
    IF Raises(r) THEN r
    ELSE Return(PyList([i \in DOMAIN r.val.pairs |-> r.val.pairs[i][2]]))

name_classes(item, include_private) == KeysOf(map_classes(item, include_private))
name_functions(item, include_private) == KeysOf(map_functions(item, include_private))
name_objects(item, include_private) == KeysOf(map_objects(item, include_private))
list_classes(item, include_private) == ValuesOf(map_classes(item, include_private))
list_functions(item, include_private) == ValuesOf(map_functions(item, include_private))
list_objects(item, include_private) == ValuesOf(map_objects(item, include_private))

---------------------------------------------------------------------------
(* The state machine of the module enumeration: the caller holds a module  *)
(* and calls the enumerations on it.                                       *)

\* Sequences of at most MaxMembers distinct names: a module's declarations.
Declarations ==
    {d \in UNION {[1..k -> MemberNames] : k \in 0..MaxMembers} :
        \A i, j \in DOMAIN d : i # j => d[i] # d[j]}

ModuleArgs ==
    [item : [__name__ : {"dummy_module"}, members : Declarations],
     include_private : BOOLEAN]

InitModules ==
    /\ RAISE_ERRORS = True
    /\ MATCH_ALL = True
    /\ configuration_RECURSIVE = False
    /\ frames = <<>>
    /\ defaults = InitialDefaults
    /\ args \in ModuleArgs
    /\ call = NoCall
    /\ outcome = Return(None)

Call_map_classes == Invoke("map_classes", None, map_classes(args.item, args.include_private))
Call_map_functions ==
    Invoke("map_functions", None, map_functions(args.item, args.include_private))
Call_map_objects == Invoke("map_objects", None, map_objects(args.item, args.include_private))
Call_name_classes ==
    Invoke("name_classes", None, name_classes(args.item, args.include_private))
Call_name_functions ==
    Invoke("name_functions", None, name_functions(args.item, args.include_private))
Call_name_objects ==
    Invoke("name_objects", None, name_objects(args.item, args.include_private))
Call_list_classes ==
    Invoke("list_classes", None, list_classes(args.item, args.include_private))
Call_list_functions ==
    Invoke("list_functions", None, list_functions(args.item, args.include_private))
Call_list_objects ==
    Invoke("list_objects", None, list_objects(args.item, args.include_private))

NextModules ==
    \/ Call_map_classes
    \/ Call_map_functions
    \/ Call_map_objects
    \/ Call_name_classes
    \/ Call_name_functions
    \/ Call_name_objects
    \/ Call_list_classes
    \/ Call_list_functions
    \/ Call_list_objects

SpecModules == InitModules /\ [][NextModules]_vars

---------------------------------------------------------------------------
(* The state machine of has_traits: the caller holds a target and one list *)
(* of names for each kind of trait, sets the globals and calls has_traits.  *)

\* A list of names as has_traits takes it: left out (None), empty, or names.
TraitLists(names) ==
    {None, PyList(<<>>)} \cup {PyList(<<n>>) : n \in names}
        \cup {PyList(s) : s \in {t \in [1..MaxNames -> names] :
                                    \A i, j \in DOMAIN t : i < j => t[i] # t[j]}}

TraitArgs ==
    [item : {"TestClass", "an_instance", "a_dataclass"},
     attributes : TraitLists({"a_dict", "nope"}),
     methods : {None, PyList(<<>>), PyList(<<"do_something">>), PyList(<<"nope">>)},
     properties : TraitLists({"list_something", "nope"}),
     objects : {None, PyList(<<"a_dict">>), PyList(<<"nope">>)},
     raise_error : Tri, match_all : Tri]

InitTraits ==
    /\ RAISE_ERRORS = True
    /\ MATCH_ALL = True
    /\ configuration_RECURSIVE = False
    /\ frames = <<>>
    /\ defaults = InitialDefaults
    /\ args \in TraitArgs
    /\ call = NoCall
    /\ outcome = Return(None)

Call_has_traits ==
    Invoke("has_traits", None,
           has_traits(args.item, args.attributes, args.methods, args.properties,
                      args.raise_error, args.match_all))

Call_src_has_traits ==
    Invoke("src_has_traits", None,
           src_has_traits(args.item, args.attributes, args.methods, args.properties,
                          args.objects, args.raise_error, args.match_all))

NextTraits ==
    \/ set_RAISE_ERRORS
    \/ set_MATCH_ALL
    \/ Call_has_traits
    \/ Call_src_has_traits

SpecTraits == InitTraits /\ [][NextTraits]_vars

---------------------------------------------------------------------------
(* attributes.py: the accessors that name and map the members of a target. *)

\* The names dir() knows, in the order of Python's string comparison.
DirOrder ==
    <<"__class__", "a_classvar", "a_default", "a_dict", "a_static", "do_something",
      "do_something_with_class", "list_something", "nope">>

\* dir(item): the names that resolve on the item, sorted.
dir(item) == SelectSeq(DirOrder, LAMBDA n : hasattr(item, n))

\* camina.drop_privates on a list of names.
drop_private_names(names) == SelectSeq(names, LAMBDA n : ~IsPrivate(n))

\* [a for a in names if checker(item, attribute = a)]: the checker is called
\* on each name in turn, and the first call that raises ends the scan.
RECURSIVE Filter(_, _, _)
Filter(checker, item, names) ==
    IF names = <<>> THEN Return(PyList(<<>>))
    ELSE LET Keep(r, rest) ==
                IF Raises(r) THEN r
                ELSE IF Raises(rest) THEN rest
                ELSE IF Truthy(r.val)
                THEN Return(PyList(<<Head(names)>> \o rest.val.items))
                ELSE rest
         IN  Keep(Checker(checker, item, Head(names), None),
                  Filter(checker, item, Tail(names)))

\* dict(zip(names, [getattr(item, n) for n in names])).
ZipMembers(item, names) ==
    Return(PyDict([i \in DOMAIN names |-> <<names[i], getattr(item, names[i])>>]))

name_attributes(item, include_private) ==
    LET names == dir(item)
    IN  Return(PyList(IF ~include_private THEN drop_private_names(names) ELSE names))

name_methods(item, include_private) ==
    LET Named(methods) ==
            IF Raises(methods) THEN methods
            ELSE IF ~include_private
            THEN Return(PyList(drop_private_names(methods.val.items)))
            ELSE methods
    IN  Named(Filter("is_method", item, dir(item)))

\* The comprehension reaches is_property through the name 'identify', which
\* the module never binds: a NameError on the first name of dir(item).
name_properties(item, include_private) ==
    IF dir(item) = <<>>
    THEN Return(PyList(<<>>))
    ELSE Raise("NameError", "name 'identify' is not defined")

map_attributes(item, include_private) ==
    ZipMembers(item, name_attributes(item, include_private).val.items)

\* map_methods returns the list of the members, not a dict.
map_methods(item, include_private) ==
    LET Members(methods) ==
            IF Raises(methods) THEN methods
            ELSE Return(PyList([i \in DOMAIN methods.val.items |->
                                    getattr(item, methods.val.items[i])]))
    IN  Members(name_methods(item, include_private))

map_properties(item, include_private) ==
    LET Members(properties) ==
            IF Raises(properties) THEN properties
            ELSE ZipMembers(item, properties.val.items)
    IN  Members(name_properties(item, include_private))

map_variables(item, include_private) ==
    LET In(n, l) == \E i \in DOMAIN l : l[i] = n
        Members(attributes, methods, properties) ==
            IF Raises(methods) THEN methods
            ELSE IF Raises(properties) THEN properties
            ELSE ZipMembers(item,
                            SelectSeq(attributes.val.items,
                                      LAMBDA a : ~In(a, methods.val.items)
                                                 /\ ~In(a, properties.val.items)))
    IN  Members(name_attributes(item, include_private),
                name_methods(item, include_private),
                name_properties(item, include_private))

\* name_methods and map_methods of the package under src/src/miller.
src_name_methods(item, include_private) ==
    LET Named(methods) ==
            IF Raises(methods) THEN methods
            ELSE IF ~include_private
            THEN Return(PyList(drop_private_names(methods.val.items)))
            ELSE methods
    IN  Named(Filter("src_is_method", item, dir(item)))

\* src/src/miller: the bare 'item.__class__' statement changes nothing, and
\* is_property is called with the item as passed.
src_name_properties(item, include_private) ==
    LET Named(properties) ==
            IF Raises(properties) THEN properties
            ELSE IF ~include_private
            THEN Return(PyList(drop_private_names(properties.val.items)))
            ELSE properties
    IN  Named(Filter("src_is_property", item, dir(item)))

src_map_methods(item, include_private) ==
    LET Members(methods) ==
            IF Raises(methods) THEN methods
            ELSE Return(PyList([i \in DOMAIN methods.val.items |->
                                    getattr(item, methods.val.items[i])]))
    IN  Members(src_name_methods(item, include_private))

AccessorArgs == [item : Items, include_private : BOOLEAN]

InitAccessors ==
    /\ RAISE_ERRORS = True
    /\ MATCH_ALL = True
    /\ configuration_RECURSIVE = False
    /\ frames = <<>>
    /\ defaults = InitialDefaults
    /\ args \in AccessorArgs
    /\ call = NoCall
    /\ outcome = Return(None)

Call_name_attributes ==
    Invoke("name_attributes", None, name_attributes(args.item, args.include_private))
Call_name_methods ==
    Invoke("name_methods", None, name_methods(args.item, args.include_private))
Call_name_properties ==
    Invoke("name_properties", None, name_properties(args.item, args.include_private))
Call_map_attributes ==
    Invoke("map_attributes", None, map_attributes(args.item, args.include_private))
Call_map_methods ==
    Invoke("map_methods", None, map_methods(args.item, args.include_private))
Call_map_properties ==
    Invoke("map_properties", None, map_properties(args.item, args.include_private))
Call_map_variables ==
    Invoke("map_variables", None, map_variables(args.item, args.include_private))
Call_src_name_methods ==
    Invoke("src_name_methods", None, src_name_methods(args.item, args.include_private))
Call_src_name_properties ==
    Invoke("src_name_properties", None,
           src_name_properties(args.item, args.include_private))
Call_src_map_methods ==
    Invoke("src_map_methods", None, src_map_methods(args.item, args.include_private))

NextAccessors ==
    \/ Call_name_attributes
    \/ Call_name_methods
    \/ Call_name_properties
    \/ Call_map_attributes
    \/ Call_map_methods
    \/ Call_map_properties
    \/ Call_map_variables
    \/ Call_src_name_methods
    \/ Call_src_name_properties
    \/ Call_src_map_methods

SpecAccessors == InitAccessors /\ [][NextAccessors]_vars

---------------------------------------------------------------------------
(* containers.py and identity.py: the shape of a container, the types it   *)
(* holds, whether it is nested.  A value is its class and what it holds;   *)
(* a set is held in its iteration order.                                   *)

MaxLen == 3
MaxPairs == 2

PyInt(n) == [py |-> "int", n |-> n]
PyTuple(s) == [py |-> "tuple", items |-> s]
PyFrozenset(s) == [py |-> "frozenset", items |-> s]
\* A class object, such as int or list.
PyClass(c) == [py |-> "type", name |-> c]
\* The view dict.values() returns.
PyValuesView(s) == [py |-> "dict_values", items |-> s]

\* type(v).
type(v) == IF v.py = "None" THEN "NoneType" ELSE v.py

\* The classes and the abstract base classes of collections.abc a class is a
\* subclass of.
Bases(c) ==
    CASE c = "bool" -> {"bool", "int"}
      [] c = "list" -> {"list", "MutableSequence", "Sequence", "Container"}
      [] c = "tuple" -> {"tuple", "Sequence", "Container"}
      [] c = "str" -> {"str", "Sequence", "Container"}
      [] c = "dict" -> {"dict", "Mapping", "Container"}
      [] c = "frozenset" -> {"frozenset", "Set", "Container"}
      [] c = "dict_values" -> {"dict_values", "Container"}
      [] OTHER -> {c}

issubclass(c, k) == k \in Bases(c)

\* isinstance(v, k) for a class k or a tuple of classes k.
isinstance(v, k) ==
    IF k.py = "tuple"
    THEN \E i \in DOMAIN k.items : issubclass(type(v), k.items[i].name)
    ELSE issubclass(type(v), k.name)

\* What iterating over a value yields: the items of a list, tuple, set or
\* view, the keys of a dict, the characters of a str.
Iterate(v) ==
    CASE v.py = "dict" -> [i \in DOMAIN v.pairs |-> v.pairs[i][1]]
      [] v.py = "str" ->
            (CASE v.s = "" -> <<>>
               [] v.s = "a" -> <<PyStr("a")>>
               [] OTHER -> <<PyStr("a"), PyStr("b")>>)
      [] OTHER -> v.items

\* item.values() of a dict.
values(v) == [i \in DOMAIN v.pairs |-> v.pairs[i][2]]

\* functools.singledispatch: the implementation registered for the most
\* specific registered class the target's class derives from; "object" is the
\* undecorated function.
dispatch(registry, item) ==
    LET hits == SelectSeq(registry, LAMBDA k : issubclass(type(item), k))
    IN  IF hits = <<>> THEN "object" ELSE Head(hits)

\* identity.py
is_sequence(item) ==
    LET cls == IF item.py = "type" THEN item.name ELSE type(item)
    IN  issubclass(cls, "Sequence") /\ ~issubclass(cls, "str")

is_set(item) ==
    LET cls == IF item.py = "type" THEN item.name ELSE type(item)
    IN  issubclass(cls, "Set")

is_nested_dict(item) ==
    Return(PyBool(/\ issubclass(type(item), "Mapping")
                  /\ \E i \in DOMAIN values(item) : issubclass(type(values(item)[i]), "Mapping")))

is_nested_list(item) ==
    Return(PyBool(is_sequence(item) /\ \E i \in DOMAIN item.items : is_sequence(item.items[i])))

is_nested_set(item) ==
    Return(PyBool(is_set(item) /\ \E i \in DOMAIN item.items : is_set(item.items[i])))

is_nested_tuple(item) ==
    Return(PyBool(is_sequence(item) /\ \E i \in DOMAIN item.items : is_sequence(item.items[i])))

is_nested(item) ==
    LET to == dispatch(<<"tuple", "Mapping", "MutableSequence", "Set">>, item)
    IN  CASE to = "Mapping" -> is_nested_dict(item)
          [] to = "MutableSequence" -> is_nested_list(item)
          [] to = "Set" -> is_nested_set(item)
          [] to = "tuple" -> is_nested_tuple(item)
          [] OTHER -> Raise("TypeError", "item is not supported")

\* containers.py: its is_nested reaches is_sequence and is_set through the
\* name 'identify', which the module never binds.
containers_is_nested(item) ==
    LET to == dispatch(<<"tuple", "Mapping", "MutableSequence", "Set">>, item)
    IN  CASE to = "Mapping" -> is_nested_dict(item)
          [] to \in {"MutableSequence", "Set", "tuple"} ->
                Raise("NameError", "name 'identify' is not defined")
          [] OTHER -> Raise("TypeError", "item is not supported")

has_contents_serial(item, contents) ==
    Return(PyBool(\A i \in DOMAIN Iterate(item) : isinstance(Iterate(item)[i], contents)))

\* 'for i in enumerate(item)' binds i to the pair (index, element), and
\* item[i] with a pair as the index is a TypeError on the first element.
has_contents_parallel(item, contents) ==
    IF Iterate(item) = <<>>
    THEN Return(True)
    ELSE Raise("TypeError", "indices must be integers or slices, not tuple")

has_contents_tuple(item, contents) ==
    IF contents.py = "tuple" /\ Len(item.items) = Len(contents.items)
    THEN has_contents_parallel(item, contents)
    ELSE has_contents_serial(item, contents)

has_contents_list(item, contents) == has_contents_serial(item, contents)

has_contents_set(item, contents) == has_contents_serial(item, contents)

\* contents[0] is read, then the keys are checked, and only if they pass is
\* contents[1] read and the values checked.
has_contents_dict(item, contents) ==
    IF contents.py # "tuple" THEN Raise("TypeError", "type is not subscriptable")
    ELSE IF Len(contents.items) < 1 THEN Raise("IndexError", "tuple index out of range")
    ELSE IF has_contents_serial(item, contents.items[1]) = Return(False) THEN Return(False)
    ELSE IF Len(contents.items) < 2 THEN Raise("IndexError", "tuple index out of range")
    ELSE has_contents_serial(PyValuesView(values(item)), contents.items[2])

has_contents(item, contents) ==
    LET to == dispatch(<<"tuple", "Mapping", "MutableSequence", "Set", "Sequence",
                         "Container">>, item)
    IN  CASE to = "Mapping" -> has_contents_dict(item, contents)
          [] to = "MutableSequence" -> has_contents_list(item, contents)
          [] to = "Set" -> has_contents_set(item, contents)
          [] to = "tuple" -> has_contents_tuple(item, contents)
          [] to = "Sequence" -> has_contents_parallel(item, contents)
          [] to = "Container" -> has_contents_serial(item, contents)
          [] OTHER -> Raise("TypeError", "item is not supported")

\* The types of the things in a sequence, each once, in first-seen order.
RECURSIVE all_types(_, _)
all_types(things, seen) ==
    IF things = <<>> THEN seen
    ELSE LET kind == PyClass(type(Head(things)))
         IN  all_types(Tail(things),
                       IF \E i \in DOMAIN seen : seen[i] = kind
                       THEN seen ELSE Append(seen, kind))

\* Called directly, not through the dispatcher: anything that is not a
\* Sequence gets None.
list_types_sequence(item) ==
    IF issubclass(type(item), "Sequence")
    THEN Return(PyTuple(all_types(Iterate(item), <<>>)))
    ELSE Return(None)

\* item.keys() and item.values() are views, not Sequences, so both calls
\* return None, and tuple() called with two arguments is a TypeError.
list_types_dict(item) ==
    Raise("TypeError", "tuple expected at most 1 argument, got 2")

\* A list has no keys().
list_types_list(item) ==
    IF type(item) = "list"
    THEN Raise("AttributeError", "'list' object has no attribute 'keys'")
    ELSE Return(None)

\* list_types returning None for a target that is not a container, as its
\* docstring words it.
list_types_none_if_unsupported(item) ==
    LET to == dispatch(<<"Mapping", "MutableSequence", "Sequence">>, item)
    IN  CASE to = "Mapping" -> list_types_dict(item)
          [] to = "MutableSequence" -> list_types_list(item)
          [] to = "Sequence" -> list_types_sequence(item)
          [] OTHER -> Return(None)

list_types(item) ==
    LET to == dispatch(<<"Mapping", "MutableSequence", "Sequence">>, item)
    IN  CASE to = "Mapping" -> list_types_dict(item)
          [] to = "MutableSequence" -> list_types_list(item)
          [] to = "Sequence" -> list_types_sequence(item)
          [] OTHER -> Raise("TypeError", "item is not supported")

---------------------------------------------------------------------------
(* The state machine of the container operations: the caller holds a       *)
(* target and the expected types and calls the operations on them.         *)

\* What a container may hold: an int, a str, a bool, a list, a dict, a set
\* and a class object.
Elements ==
    {PyInt(1), PyStr("a"), True, PyList(<<PyInt(1)>>), PyDict(<<>>),
     PyFrozenset(<<>>), PyClass("list")}

Hashables == {PyInt(1), PyStr("a"), PyFrozenset(<<>>)}

SeqsOf(S, n) == UNION {[1..k -> S] : k \in 0..n}

Distinct(s) == \A i, j \in DOMAIN s : i # j => s[i] # s[j]

Targets ==
    {PyInt(1), None, PyStr(""), PyStr("ab")}
    \cup {PyList(s) : s \in SeqsOf(Elements, MaxLen)}
    \cup {PyTuple(s) : s \in SeqsOf(Elements, MaxLen)}
    \cup {PyValuesView(s) : s \in SeqsOf(Elements, 1)}
    \cup {PyFrozenset(s) : s \in {t \in SeqsOf(Hashables, MaxPairs) : Distinct(t)}}
    \cup {PyDict(s) : s \in {t \in SeqsOf(Hashables \X Elements, MaxPairs) :
                                \A i, j \in DOMAIN t : i # j => t[i][1] # t[j][1]}}

\* The expected types: a class, or a tuple of classes.
Contents ==
    {PyClass("int"), PyClass("str")}
    \cup {PyTuple(s) : s \in SeqsOf({PyClass("int"), PyClass("str")}, 2) \ {<<>>}}

ContainerArgs == [item : Targets, contents : Contents]

InitContainers ==
    /\ RAISE_ERRORS = True
    /\ MATCH_ALL = True
    /\ configuration_RECURSIVE = False
    /\ frames = <<>>
    /\ defaults = InitialDefaults
    /\ args \in ContainerArgs
    /\ call = NoCall
    /\ outcome = Return(None)

Call_has_contents == Invoke("has_contents", None, has_contents(args.item, args.contents))
Call_is_nested == Invoke("is_nested", None, is_nested(args.item))
Call_containers_is_nested ==
    Invoke("containers.is_nested", None, containers_is_nested(args.item))
Call_list_types == Invoke("list_types", None, list_types(args.item))

NextContainers ==
    \/ Call_has_contents
    \/ Call_is_nested
    \/ Call_containers_is_nested
    \/ Call_list_types

SpecContainers == InitContainers /\ [][NextContainers]_vars

---------------------------------------------------------------------------
(* src/src/miller/disks.py: the directory enumerations.                    *)
(* A name is the sequence of its parts between dots ('a.py' is <<"a",      *)
(* "py">>, 'README' is <<"README">>, '.env' is <<"", "env">>), a path is   *)
(* the sequence of names below the folder 'item', and a tree is the set of *)
(* entries that exist on disk.                                             *)

PyPath(p) == [py |-> "Path", parts |-> p]

\* Every entry a tree may hold, in the order the disk lists them.
Universe ==
    << [path |-> << <<"README">> >>, kind |-> "file"],
       [path |-> << <<"a", "py">> >>, kind |-> "file"],
       [path |-> << <<"a", "txt">> >>, kind |-> "file"],
       [path |-> << <<"", "env">> >>, kind |-> "file"],
       [path |-> << <<"pkg", "d">> >>, kind |-> "folder"],
       [path |-> << <<"sub">> >>, kind |-> "folder"],
       [path |-> << <<"pkg", "d">>, <<"c", "pyc">> >>, kind |-> "file"],
       [path |-> << <<"sub">>, <<"LICENSE">> >>, kind |-> "file"],
       [path |-> << <<"sub">>, <<"b", "py">> >>, kind |-> "file"] >>

Entries == {Universe[i] : i \in 1..Len(Universe)}

Parent(p) == SubSeq(p, 1, Len(p) - 1)

Name(p) == p[Len(p)]

\* The trees a disk can hold: an entry lies in a folder that exists.
Trees ==
    {t \in SUBSET Entries :
        \A e \in t : Len(e.path) > 1 =>
            [path |-> Parent(e.path), kind |-> "folder"] \in t}

\* configuration.MODULE_EXTENSIONS, each without its leading dot.
MODULE_EXTENSIONS == {"py", "pyc"}

\* pathlib's 'suffix': the last part of a name that has a dot after its
\* first character, and the empty string otherwise.
suffix_of(p) ==
    LET n == Name(p)
    IN IF Len(n) > 1 /\ ~(Len(n) = 2 /\ n[1] = "") THEN n[Len(n)] ELSE ""

exists(tree, p) == \E e \in tree : e.path = p

is_file(tree, p) == exists(tree, p) /\ \E e \in tree : e.path = p /\ e.kind = "file"

is_folder(tree, p) ==
    exists(tree, p) /\ \E e \in tree : e.path = p /\ e.kind = "folder"

is_module(tree, p) ==
    exists(tree, p) /\ is_file(tree, p) /\ suffix_of(p) \in MODULE_EXTENSIONS

\* fnmatch of a name against the pattern '*.{suffix}'.
Matches(name, suffix) ==
    /\ Len(name) > 1
    /\ suffix = "*" \/ name[Len(name)] = suffix

\* Path.glob('*.{suffix}'): the matching entries directly inside 'item'.
glob(tree, suffix) ==
    SelectSeq(Universe, LAMBDA e :
        e \in tree /\ Len(e.path) = 1 /\ Matches(Name(e.path), suffix))

\* Path.rglob('*.{suffix}'): the matching entries at any depth below 'item'.
rglob(tree, suffix) ==
    SelectSeq(Universe, LAMBDA e : e \in tree /\ Matches(Name(e.path), suffix))

Paths(entries) == [i \in 1..Len(entries) |-> entries[i].path]

\* The value of 'recursive' after the default is filled in.
ResolveRecursive(recursive, global) == IF recursive = None THEN global ELSE recursive

list_paths(tree, recursive, suffix, global) ==
    IF Truthy(ResolveRecursive(recursive, global))
    THEN Paths(rglob(tree, suffix))
    ELSE Paths(glob(tree, suffix))

list_files(tree, recursive, suffix, global) ==
    SelectSeq(list_paths(tree, ResolveRecursive(recursive, global), suffix, global),
              LAMBDA p : is_file(tree, p))

list_folders(tree, recursive, global) ==
    SelectSeq(list_paths(tree, ResolveRecursive(recursive, global), "*", global),
              LAMBDA p : is_folder(tree, p))

\* pathlib's 'stem': the name without its suffix.
stem_of(p) ==
    IF suffix_of(p) = "" THEN Name(p) ELSE SubSeq(Name(p), 1, Len(Name(p)) - 1)

\* nagata.from_file_path: the module imported from a file, named by its stem.
from_file_path(p) == [py |-> "module", name |-> stem_of(p), file |-> p]

\* A mutant of list_modules that keeps every file, whatever its suffix.
list_modules_any_suffix(tree, recursive, import_modules, global) ==
    LET Import(modules) ==
            IF import_modules
            THEN [i \in 1..Len(modules) |-> from_file_path(modules[i])]
            ELSE [i \in 1..Len(modules) |-> PyPath(modules[i])]
    IN  Import(SelectSeq(list_paths(tree, ResolveRecursive(recursive, global), "*", global),
                         LAMBDA p : is_file(tree, p)))

list_modules(tree, recursive, import_modules, global) ==
    LET Import(modules) ==
            IF import_modules
            THEN [i \in 1..Len(modules) |-> from_file_path(modules[i])]
            ELSE [i \in 1..Len(modules) |-> PyPath(modules[i])]
    IN  Import(SelectSeq(list_paths(tree, ResolveRecursive(recursive, global), "*", global),
                         LAMBDA p : is_module(tree, p)))

PathList(paths) == PyList([i \in 1..Len(paths) |-> PyPath(paths[i])])

\* [p.stem for p in ...] and [p.name for p in ...].
Stems(paths) == [i \in 1..Len(paths) |-> stem_of(paths[i])]

Names(paths) == [i \in 1..Len(paths) |-> Name(paths[i])]

name_files(tree, recursive, global) ==
    Stems(list_files(tree, ResolveRecursive(recursive, global), "*", global))

name_folders(tree, recursive, global) ==
    Names(list_folders(tree, ResolveRecursive(recursive, global), global))

\* The modules are listed without import_modules, as paths.
name_modules(tree, recursive, global) ==
    LET StemsOf(modules) == [i \in 1..Len(modules) |-> stem_of(modules[i].parts)]
    IN  StemsOf(list_modules(tree, ResolveRecursive(recursive, global), FALSE, global))

name_paths(tree, recursive, global) ==
    name_files(tree, ResolveRecursive(recursive, global), global)
        \o name_folders(tree, ResolveRecursive(recursive, global), global)

\* dict(zip(names, vals)): zip stops at the shorter list, a key met again
\* keeps its place and takes the later value.
RECURSIVE Zip(_, _, _)
Zip(names, vals, pairs) ==
    IF names = <<>> \/ vals = <<>> THEN pairs
    ELSE LET Put(old) ==
                IF \E i \in DOMAIN old : old[i][1] = Head(names)
                THEN [i \in DOMAIN old |->
                        IF old[i][1] = Head(names) THEN <<Head(names), Head(vals)>>
                        ELSE old[i]]
                ELSE Append(old, <<Head(names), Head(vals)>>)
         IN  Zip(Tail(names), Tail(vals), Put(pairs))

map_files(tree, recursive, global) ==
    PyDict(Zip(name_files(tree, ResolveRecursive(recursive, global), global),
               PathList(list_files(tree, ResolveRecursive(recursive, global), "*",
                                   global)).items,
               <<>>))

map_folders(tree, recursive, global) ==
    PyDict(Zip(name_folders(tree, ResolveRecursive(recursive, global), global),
               PathList(list_folders(tree, ResolveRecursive(recursive, global),
                                     global)).items,
               <<>>))

map_modules(tree, recursive, import_modules, global) ==
    PyDict(Zip(name_modules(tree, ResolveRecursive(recursive, global), global),
               list_modules(tree, ResolveRecursive(recursive, global), import_modules,
                            global),
               <<>>))

map_paths(tree, recursive, global) ==
    PyDict(Zip(name_paths(tree, ResolveRecursive(recursive, global), global),
               PathList(list_paths(tree, ResolveRecursive(recursive, global), "*",
                                   global)).items,
               <<>>))

---------------------------------------------------------------------------
(* The state machine of the directory enumerations.                        *)

DiskArgs ==
    [tree : Trees, recursive : Tri, suffix : {"*", "py"}, import_modules : BOOLEAN]

InitDisks ==
    /\ RAISE_ERRORS = True
    /\ MATCH_ALL = True
    /\ configuration_RECURSIVE = False
    /\ frames = <<>>
    /\ defaults = InitialDefaults
    /\ args \in DiskArgs
    /\ call = NoCall
    /\ outcome = Return(None)

set_RECURSIVE ==
    \E b \in Bools :
        /\ configuration_RECURSIVE' = b
        /\ UNCHANGED <<RAISE_ERRORS, MATCH_ALL, frames, defaults, args, call, outcome>>

Call_list_paths ==
    Invoke("list_paths", None,
           Return(PathList(list_paths(args.tree, args.recursive, args.suffix,
                                      configuration_RECURSIVE))))

Call_list_files ==
    Invoke("list_files", None,
           Return(PathList(list_files(args.tree, args.recursive, args.suffix,
                                      configuration_RECURSIVE))))

Call_list_folders ==
    Invoke("list_folders", None,
           Return(PathList(list_folders(args.tree, args.recursive,
                                        configuration_RECURSIVE))))

Call_list_modules ==
    Invoke("list_modules", None,
           Return(PyList(list_modules(args.tree, args.recursive, args.import_modules,
                                      configuration_RECURSIVE))))

Call_name_files ==
    Invoke("name_files", None,
           Return(PyList(name_files(args.tree, args.recursive, configuration_RECURSIVE))))

Call_name_folders ==
    Invoke("name_folders", None,
           Return(PyList(name_folders(args.tree, args.recursive,
                                      configuration_RECURSIVE))))

Call_name_modules ==
    Invoke("name_modules", None,
           Return(PyList(name_modules(args.tree, args.recursive,
                                      configuration_RECURSIVE))))

Call_name_paths ==
    Invoke("name_paths", None,
           Return(PyList(name_paths(args.tree, args.recursive, configuration_RECURSIVE))))

Call_map_files ==
    Invoke("map_files", None,
           Return(map_files(args.tree, args.recursive, configuration_RECURSIVE)))

Call_map_folders ==
    Invoke("map_folders", None,
           Return(map_folders(args.tree, args.recursive, configuration_RECURSIVE)))

Call_map_modules ==
    Invoke("map_modules", None,
           Return(map_modules(args.tree, args.recursive, args.import_modules,
                              configuration_RECURSIVE)))

Call_map_paths ==
    Invoke("map_paths", None,
           Return(map_paths(args.tree, args.recursive, configuration_RECURSIVE)))

NextDisks ==
    \/ set_RECURSIVE
    \/ Call_list_paths
    \/ Call_list_files
    \/ Call_list_folders
    \/ Call_list_modules
    \/ Call_name_files
    \/ Call_name_folders
    \/ Call_name_modules
    \/ Call_name_paths
    \/ Call_map_files
    \/ Call_map_folders
    \/ Call_map_modules
    \/ Call_map_paths

SpecDisks == InitDisks /\ [][NextDisks]_vars

---------------------------------------------------------------------------
(* src/src/miller/examiners.py: the Inspector factory.  Constructing a      *)
(* class runs its __new__, found along its method-resolution order; every  *)
(* activation of Inspector.__new__ is a frame.                             *)

\* The depth of calls at which Python raises RecursionError.
RecursionLimit == 3

\* The classes of examiners.py that define __new__ themselves.
Defines__new__ == {"Inspector"}

\* cls.__new__: the first class of cls's method-resolution order that
\* defines it; every subclass derives from Inspector alone.
Owner__new__(cls) == IF cls \in Defines__new__ THEN cls ELSE "Inspector"

\* The type switch of Inspector.__new__: the subclass it constructs.
Select(item) ==
    IF isinstance(item, PyClass("module")) THEN Return("ModuleInspector")
    ELSE IF isinstance(item, PyTuple(<<PyClass("Path"), PyClass("str")>>))
    THEN Return("PackageInspector")
    ELSE IF item.py = "type" THEN Return("ClassInspector")
    ELSE IF TRUE \* isinstance(item, object) holds of every value
    THEN Return("InstanceInspector")
    ELSE Raise("TypeError", "item must be a module, path, class, or object")

\* The instance object.__new__ and the dataclass __init__ make.
Wrapper(cls, item, include_private) ==
    [py |-> cls, item |-> item,
     include_private |-> IF include_private = Omitted THEN True ELSE include_private]

\* The targets handed to the factory.
InspectorItems ==
    {from_file_path(<< <<"a", "py">> >>), PyPath(<< <<"sub">> >>), PyStr("a"),
     PyClass("list"), PyClass("TestClass"), PyInt(1), None, True, PyList(<<>>),
     PyDict(<<>>)}

InspectorArgs == [item : InspectorItems, include_private : {Omitted, True, False}]

InitInspector ==
    /\ RAISE_ERRORS = True
    /\ MATCH_ALL = True
    /\ configuration_RECURSIVE = False
    /\ frames = <<>>
    /\ defaults = InitialDefaults
    /\ args \in InspectorArgs
    /\ call = NoCall
    /\ outcome = Return(None)

\* Inspector(item, ...): type.__call__ runs Inspector.__new__.
Call_Inspector ==
    /\ call = NoCall
    /\ frames = <<>>
    /\ call' = [fn |-> "Inspector", kind |-> None]
    /\ frames' = <<[cls |-> "Inspector", item |-> args.item]>>
    /\ UNCHANGED <<RAISE_ERRORS, MATCH_ALL, configuration_RECURSIVE, defaults, args, outcome>>

\* The body of the innermost activation: it constructs the selected subclass,
\* which runs that subclass's __new__.  An exception unwinds every frame, a
\* returned instance is returned by every frame.
Inspector__new__ ==
    /\ frames # <<>>
    /\ LET Construct(chosen) ==
            IF Raises(chosen)
            THEN frames' = <<>> /\ outcome' = chosen
            ELSE IF Owner__new__(chosen.val) = "Inspector"
            THEN IF Len(frames) < RecursionLimit
                 THEN /\ frames' = Append(frames, [cls |-> chosen.val, item |-> args.item])
                      /\ outcome' = outcome
                 ELSE /\ frames' = <<>>
                      /\ outcome' = Raise("RecursionError",
                                          "maximum recursion depth exceeded")
            ELSE /\ frames' = <<>>
                 /\ outcome' = Return(Wrapper(chosen.val, args.item, args.include_private))
       IN  Construct(Select(frames[Len(frames)].item))
    /\ UNCHANGED <<RAISE_ERRORS, MATCH_ALL, configuration_RECURSIVE, defaults, args, call>>

NextInspector ==
    \/ Call_Inspector
    \/ Inspector__new__

SpecInspector == InitInspector /\ [][NextInspector]_vars

---------------------------------------------------------------------------
(* The field operations of src/miller/attributes.py and of                 *)
(* src/miller/objects.py.                                                  *)

\* attributes.py: the test is dataclasses.identity.is_dataclass(item).
has_fields(item, fields, raise_error, match_all) ==
    LET identity == dataclasses_attribute("identity")
    IN  IF Raises(identity) THEN identity
        ELSE IF is_dataclass(item)
        THEN has_elements("is_field", raise_error, match_all, item, fields)
        ELSE Raise("TypeError", "item must be a dataclass")

name_fields(item, include_private) ==
    LET identity == dataclasses_attribute("identity")
    IN  IF Raises(identity) THEN identity
        ELSE IF is_dataclass(item)
        THEN LET attributes == dataclasses_fields(item)
             IN  Return(PyList(IF ~include_private THEN drop_private_names(attributes)
                               ELSE attributes))
        ELSE Raise("TypeError", "item must be a dataclass")

\* The Field object of a name is held as the name itself.
FieldPairs(names) == [i \in 1..Len(names) |-> <<names[i], names[i]>>]

\* attributes.py: the test is dataclasses.identify.identity.is_dataclass(item).
map_fields(item, include_private) ==
    LET identify == dataclasses_attribute("identify")
    IN  IF Raises(identify) THEN identify
        ELSE IF is_dataclass(item)
        THEN LET attributes == FieldPairs(dataclasses_fields(item))
             IN  Return(PyDict(IF ~include_private THEN drop_privates(attributes)
                               ELSE attributes))
        ELSE Raise("TypeError", "item must be a dataclass")

\* objects.py: all(a in all_fields for a in fields).
objects_has_fields(item, fields) ==
    IF is_dataclass(item)
    THEN LET all_fields == dataclasses_fields(item)
         IN  Return(PyBool(\A i \in 1..Len(fields) :
                               \E j \in 1..Len(all_fields) : all_fields[j] = fields[i]))
    ELSE Raise("TypeError", "item must be a dataclass")

objects_name_fields(item, include_private) ==
    IF is_dataclass(item)
    THEN LET attributes == dataclasses_fields(item)
         IN  Return(PyList(IF ~include_private THEN drop_private_names(attributes)
                           ELSE attributes))
    ELSE Raise("TypeError", "item must be a dataclass")

\* objects.py: the test is dataclasses.identify.is_dataclass(item).
objects_map_fields(item, include_private) ==
    LET identify == dataclasses_attribute("identify")
    IN  IF Raises(identify) THEN identify
        ELSE IF is_dataclass(item)
        THEN LET attributes == FieldPairs(dataclasses_fields(item))
             IN  Return(PyDict(IF ~include_private THEN drop_privates(attributes)
                               ELSE attributes))
        ELSE Raise("TypeError", "item must be a dataclass")

\* The class bodies: up to MaxFields distinct declared names.
FieldDeclarations ==
    {d \in UNION {[1..n -> FieldNames] : n \in 0..MaxFields} :
        \A i, j \in 1..Len(d) : i # j => d[i] # d[j]}

FieldTargets ==
    [kind : {"dataclass", "dataclass_instance", "class", "instance"},
     declared : FieldDeclarations]

FieldLists ==
    {<<>>, <<"a_dict">>, <<"a_classvar">>, <<"_hidden", "a_list">>, <<"nope">>}

FieldArgs ==
    [item : FieldTargets, names : FieldLists, raise_error : Tri,
     match_all : {None}, include_private : BOOLEAN]

InitFields ==
    /\ RAISE_ERRORS = True
    /\ MATCH_ALL = True
    /\ configuration_RECURSIVE = False
    /\ frames = <<>>
    /\ defaults = InitialDefaults
    /\ args \in FieldArgs
    /\ call = NoCall
    /\ outcome = Return(None)

Call_is_field ==
    /\ args.names # <<>>
    /\ Invoke("is_field", None, is_field(args.item, args.names[1], args.raise_error))

Call_has_fields ==
    Invoke("has_fields", None,
           has_fields(args.item, args.names, args.raise_error, args.match_all))

Call_name_fields ==
    Invoke("name_fields", None, name_fields(args.item, args.include_private))

Call_map_fields ==
    Invoke("map_fields", None, map_fields(args.item, args.include_private))

Call_objects_has_fields ==
    Invoke("objects_has_fields", None, objects_has_fields(args.item, args.names))

Call_objects_name_fields ==
    Invoke("objects_name_fields", None,
           objects_name_fields(args.item, args.include_private))

Call_objects_map_fields ==
    Invoke("objects_map_fields", None,
           objects_map_fields(args.item, args.include_private))

NextFields ==
    \/ Call_is_field
    \/ Call_has_fields
    \/ Call_name_fields
    \/ Call_map_fields
    \/ Call_objects_has_fields
    \/ Call_objects_name_fields
    \/ Call_objects_map_fields

SpecFields == InitFields /\ [][NextFields]_vars

---------------------------------------------------------------------------
(* The reporters of a collection and the caller that keeps what they       *)
(* return: a returned default is the module-level object itself.           *)

MaxAppends == 2

\* The module attribute a reporter returns on a failed, non-raising check.
DefaultOf(fn) ==
    CASE fn = "report_list" -> "DEFAULT_LIST"
      [] fn = "report_map" -> "DEFAULT_MAP"
      [] fn = "report_name" -> "DEFAULT_NAME"

\* 'return configuration.DEFAULT_X' reads the attribute when the call is made:
\* the object as it is then.
Current(d, fn, result, default) ==
    IF result = Return(default) THEN Return(d[DefaultOf(fn)]) ELSE result

\* The last call handed the caller one of the default objects.
HoldsDefault ==
    /\ call.fn \in {"report_list", "report_map", "report_name"}
    /\ outcome.tag = "return"
    /\ ~Truthy(args.value)

\* list.append(x) or dict.__setitem__(k, v) on an object.
Grown(v) ==
    IF v.py = "list"
    THEN PyList(Append(v.items, "extra"))
    ELSE PyDict(Append(v.pairs, <<"extra", "extra">>))

Size(v) == IF v.py = "list" THEN Len(v.items) ELSE Len(v.pairs)

Report(fn, result, default) ==
    /\ call' = [fn |-> fn, kind |-> None]
    /\ outcome' = Current(defaults, fn, result, default)
    /\ UNCHANGED <<RAISE_ERRORS, MATCH_ALL, configuration_RECURSIVE, frames, defaults, args>>

Reported_list ==
    Report("report_list",
           report_list(args.value, args.raise_error, args.match_all, args.item, args.names),
           DEFAULT_LIST)

Reported_map ==
    Report("report_map",
           report_map(args.value, args.raise_error, args.match_all, args.item, args.names),
           DEFAULT_MAP)

Reported_name ==
    Report("report_name",
           report_name(args.value, args.raise_error, args.match_all, args.item, args.names),
           DEFAULT_NAME)

\* The caller adds an element to the object it was handed.
Caller_appends ==
    /\ HoldsDefault
    /\ Size(defaults[DefaultOf(call.fn)]) < MaxAppends
    /\ defaults' = [defaults EXCEPT ![DefaultOf(call.fn)] = Grown(@)]
    /\ outcome' = Return(defaults'[DefaultOf(call.fn)])
    /\ UNCHANGED <<RAISE_ERRORS, MATCH_ALL, configuration_RECURSIVE, frames, args, call>>

InitDefaults ==
    /\ RAISE_ERRORS = True
    /\ MATCH_ALL = True
    /\ configuration_RECURSIVE = False
    /\ frames = <<>>
    /\ defaults = InitialDefaults
    /\ args \in ReporterArgs
    /\ call = NoCall
    /\ outcome = Return(None)

NextDefaults ==
    \/ Reported_list
    \/ Reported_map
    \/ Reported_name
    \/ Caller_appends

SpecDefaults == InitDefaults /\ [][NextDefaults]_vars

---------------------------------------------------------------------------
(* Vocabulary of the properties.                                           *)

HasFns == {"has_attributes", "has_methods", "has_properties", "src_has_attributes"}

Classifiers ==
    {"is_attribute", "is_method", "is_property", "is_variable",
     "is_class_attribute", "is_class_method", "is_class_variable",
     "is_instance_attribute", "is_instance_method", "is_instance_variable"}

ReportFns == {"report_has", "report_is", "report_list", "report_map", "report_name"}

\* The single-name classifier a composite check is built on, called with
\* raise_error = False.
IsX(fn, item, n) ==
    CASE fn = "has_attributes" -> is_attribute(item, n, False)
      [] fn = "has_methods" -> is_method(item, n, False)
      [] fn = "has_properties" -> is_property(item, n, False)
      [] fn = "src_has_attributes" -> src_is_attribute(item, n, False)

\* The call fn made on arguments a, under the globals of the current state.
EvalCall(fn, a) ==
    CASE fn = "has_attributes" -> has_attributes(a.item, a.names, a.raise_error, a.match_all)
      [] fn = "has_methods" -> has_methods(a.item, a.names, a.raise_error, a.match_all)
      [] fn = "has_properties" -> has_properties(a.item, a.names, a.raise_error, a.match_all)
      [] fn = "src_has_attributes" ->
            src_has_attributes(a.item, a.names, a.raise_error, a.match_all)
      [] fn = "is_attribute" -> is_attribute(a.item, a.names[1], a.raise_error)
      [] fn = "src_is_attribute" -> src_is_attribute(a.item, a.names[1], a.raise_error)
      [] fn = "is_method" -> is_method(a.item, a.names[1], a.raise_error)
      [] fn = "is_property" -> is_property(a.item, a.names[1], a.raise_error)
      [] fn = "is_variable" -> is_variable(a.item, a.names[1], a.raise_error)
      [] fn = "is_class_attribute" -> is_class_attribute(a.item, a.names[1], a.raise_error)
      [] fn = "is_class_method" -> is_class_method(a.item, a.names[1], a.raise_error)
      [] fn = "is_class_variable" -> is_class_variable(a.item, a.names[1], a.raise_error)
      [] fn = "is_instance_attribute" ->
            is_instance_attribute(a.item, a.names[1], a.raise_error)
      [] fn = "is_instance_method" -> is_instance_method(a.item, a.names[1], a.raise_error)
      [] fn = "is_instance_variable" ->
            is_instance_variable(a.item, a.names[1], a.raise_error)

\* A step that is a library call: the globals stay as they are.
CallStep == RAISE_ERRORS' = RAISE_ERRORS /\ MATCH_ALL' = MATCH_ALL

---------------------------------------------------------------------------
(* C1..C10                                                                 *)

\* C1: a composite check called with raise_error = False returns True exactly
\* when its single-name classifier (raise_error = False) is True for every name
\* of the list under match_all = True, and for at least one name under
\* match_all = False.
C1_HasIsAllOrAny ==
    (call.fn \in HasFns /\ args.raise_error = False /\ args.match_all \in Bools) =>
        ((outcome = Return(True)) <=>
            IF args.match_all = True
            THEN \A i \in DOMAIN args.names :
                    IsX(call.fn, args.item, args.names[i]) = Return(True)
            ELSE \E i \in DOMAIN args.names :
                    IsX(call.fn, args.item, args.names[i]) = Return(True))

\* has_properties with match_all = False on a list of two names of which only
\* the first is a property has returned True.
C1_Witness ==
    /\ call.fn = "has_properties"
    /\ args.raise_error = False
    /\ args.match_all = False
    /\ args.names = <<"list_something", "nope">>
    /\ outcome = Return(True)

C3_NoneMeansGlobalRaise ==
    [][(CallStep /\ call'.fn \in HasFns \cup Classifiers /\ args.raise_error = None) =>
        outcome' = EvalCall(call'.fn, [args EXCEPT !.raise_error = RAISE_ERRORS])]_vars

\* C4: while MATCH_ALL is True, a composite check with match_all = None ends as
\* the same call with match_all = True.
C4_NoneMeansGlobalMatchAll ==
    [][(CallStep /\ call'.fn \in HasFns /\ args.match_all = None /\ MATCH_ALL = True) =>
        outcome' = EvalCall(call'.fn, [args EXCEPT !.match_all = True])]_vars

\* The empty default of a reporter's result shape.
EmptyDefault(fn) ==
    CASE fn \in {"report_has", "report_is"} -> False
      [] fn \in {"report_list", "report_name"} -> PyList(<<>>)
      [] fn = "report_map" -> PyDict(<<>>)

FiveKinds ==
    {"is_class_variable", "is_instance_variable", "is_instance_method",
     "is_class_method", "is_property"}

\* C6: for an instance and a name that resolves on it, exactly one of
\* is_class_variable, is_instance_variable, is_instance_method, is_class_method
\* and is_property (raise_error = False) is True.
C6_ExactlyOneKind ==
    (OnName /\ args.item \in Instances /\ hasattr(args.item, args.names[1])
        /\ call.fn \in FiveKinds /\ args.raise_error = False) =>
        Cardinality({f \in FiveKinds : EvalCall(f, args) = Return(True)}) = 1

\* C7: a single-name classifier called with raise_error = False on a name that
\* does not resolve on the target returns False and does not raise.
C7_MissingNameIsFalse ==
    (OnName /\ call.fn \in Classifiers /\ args.raise_error = False
        /\ ~hasattr(args.item, args.names[1])) =>
        outcome = Return(False)

\* C8: is_attribute on a name that does not resolve raises AttributeError under
\* raise_error = True and returns False under raise_error = False; on a name
\* that resolves it returns True under either.
C8_IsAttributeContract ==
    (OnName /\ call.fn \in {"is_attribute", "src_is_attribute"}
        /\ args.raise_error \in Bools) =>
        IF hasattr(args.item, args.names[1])
        THEN outcome = Return(True)
        ELSE IF args.raise_error = True
        THEN Raises(outcome) /\ outcome.exc = "AttributeError"
        ELSE outcome = Return(False)

\* What the claim expects of classifier fn on name n of the test instances.
Expected(fn, n) ==
    CASE n = "a_dict" /\ fn \in {"is_attribute", "is_instance_attribute", "is_variable",
                                 "is_instance_variable"} -> True
      [] n = "a_dict" /\ fn \in {"is_class_attribute", "is_class_variable"} -> False
      [] n = "a_classvar" /\ fn = "is_class_attribute" -> True
      [] n = "do_something" /\ fn \in {"is_method", "is_instance_method"} -> True
      [] n = "do_something_with_class" /\ fn = "is_class_method" -> True
      [] n = "list_something" /\ fn = "is_property" -> True
      [] OTHER -> None

\* C9: on the instances of the test suite, with raise_error = False, the
\* classifiers answer as the tests assert for the data attribute a_dict, the
\* class constant a_classvar, the method do_something, the classmethod
\* do_something_with_class and the property list_something.
C9_TestAssertions ==
    (OnName /\ call.fn \in Classifiers /\ args.raise_error = False
        /\ args.item \in {"an_instance", "a_dataclass"}
        /\ Expected(call.fn, args.names[1]) # None) =>
        outcome = Return(Expected(call.fn, args.names[1]))

\* The members of kind k whose recorded owning module is the module itself.
DirectlyDefined(item, k) ==
    {n \in Namespace(item) : MemberKind(n) = k /\ MemberModule(n) = item.__name__}

ListedNames(o) == {o.val.items[i] : i \in DOMAIN o.val.items}

\* C10: name_classes and name_functions return, each name once, only classes
\* (functions) whose recorded owning module is the module itself, and all of
\* those that are public; the private ones are listed too under
\* include_private.
C10_NamesDirectlyDefined ==
    \A k \in {"class", "function"} :
        (call.fn = (IF k = "class" THEN "name_classes" ELSE "name_functions")) =>
            /\ outcome.tag = "return"
            /\ ListedNames(outcome) \subseteq DirectlyDefined(args.item, k)
            /\ \A n \in DirectlyDefined(args.item, k) :
                    (~IsPrivate(n) \/ args.include_private) <=> n \in ListedNames(outcome)
            /\ Cardinality(ListedNames(outcome)) = Len(outcome.val.items)

\* name_classes has listed a module's own class and left out the imported
\* class the module also binds.
C10_Witness ==
    /\ call.fn = "name_classes"
    /\ "Path" \in Namespace(args.item)
    /\ "DummyClass" \in Namespace(args.item)
    /\ outcome = Return(PyList(<<"DummyClass">>))

---------------------------------------------------------------------------
(* C11..C20                                                                *)

ObjectFns == {"name_objects", "list_objects", "map_objects"}

\* The names a module enumeration has returned: the items of a list, the keys
\* of a mapping.
EnumeratedNames(o) ==
    IF o.val.py = "list"
    THEN {o.val.items[i] : i \in DOMAIN o.val.items}
    ELSE {o.val.pairs[i][1] : i \in DOMAIN o.val.pairs}

\* C11: name_objects, list_objects and map_objects return a value, and what
\* they return holds no class and no function of the module: only members
\* that are neither.
C11_ObjectsAreComplement ==
    call.fn \in ObjectFns =>
        /\ ~Raises(outcome)
        /\ \A n \in EnumeratedNames(outcome) : MemberKind(n) = "data"

\* The place of a name in the order of Python's string comparison.
SortRank(n) == CHOOSE i \in DOMAIN MemberOrder : MemberOrder[i] = n

\* The directly defined classes of a module that name_classes lists, in the
\* order of their declaration.
DeclaredClasses(item, include_private) ==
    LET Listed(n) ==
            /\ MemberKind(n) = "class"
            /\ MemberModule(n) = item.__name__
            /\ (include_private \/ ~IsPrivate(n))
    IN  SelectSeq(item.members, Listed)

\* C12 as claimed: name_classes returns the class names in the order in which
\* the module declares them.
C12_DeclarationOrder ==
    call.fn = "name_classes" =>
        outcome = Return(PyList(DeclaredClasses(args.item, args.include_private)))

\* C12 as amended: name_classes returns the names of the directly defined
\* classes sorted by name, whatever the order of their declaration.
C12_SortedByName ==
    call.fn = "name_classes" =>
        /\ ~Raises(outcome)
        /\ ListedNames(outcome) =
                {DeclaredClasses(args.item, args.include_private)[i] :
                    i \in DOMAIN DeclaredClasses(args.item, args.include_private)}
        /\ \A i, j \in DOMAIN outcome.val.items :
                i < j => SortRank(outcome.val.items[i]) < SortRank(outcome.val.items[j])

\* name_classes of a module that declares DummyDataclass before DummyClass
\* has returned DummyClass first.
C12_Witness ==
    /\ call.fn = "name_classes"
    /\ args.item.members = <<"DummyDataclass", "DummyClass">>
    /\ outcome = Return(PyList(<<"DummyClass", "DummyDataclass">>))

\* C13: list_types returns, for a list, tuple or other sequence, the types of
\* its elements, each once, in first-seen order, and for a mapping the pair of
\* the types of its keys and the types of its values, each likewise.
C13_ContainedTypes ==
    call.fn = "list_types" =>
        /\ issubclass(type(args.item), "Sequence") =>
                outcome = Return(PyTuple(all_types(Iterate(args.item), <<>>)))
        /\ issubclass(type(args.item), "Mapping") =>
                outcome = Return(PyTuple(<<PyTuple(all_types(Iterate(args.item), <<>>)),
                                           PyTuple(all_types(values(args.item), <<>>))>>))

\* The positional case: a tuple target and an expected tuple of its length.
Positional(a) ==
    /\ a.item.py = "tuple"
    /\ a.contents.py = "tuple"
    /\ Len(a.item.items) = Len(a.contents.items)

\* C14: has_contents of a list, set or tuple returns True iff every element
\* is an instance of the expected type(s); of a tuple with an expected tuple
\* of the same length, iff element i is an instance of expected[i] for all i.
C14_HoldsTypes ==
    (call.fn = "has_contents" /\ args.item.py \in {"list", "tuple", "frozenset"}) =>
        outcome = Return(PyBool(
            IF Positional(args)
            THEN \A i \in DOMAIN args.item.items :
                    isinstance(args.item.items[i], args.contents.items[i])
            ELSE \A i \in DOMAIN args.item.items :
                    isinstance(args.item.items[i], args.contents)))

\* The container shape of a target recurs one level inside it.
Recurs(item) ==
    CASE item.py = "dict" -> \E i \in DOMAIN item.pairs : item.pairs[i][2].py = "dict"
      [] item.py \in {"list", "tuple"} ->
            \E i \in DOMAIN item.items : item.items[i].py \in {"list", "tuple"}
      [] item.py = "frozenset" ->
            \E i \in DOMAIN item.items : item.items[i].py = "frozenset"

\* C15: is_nested of a mapping, list, tuple or set is True iff the target
\* holds a mapping value, a non-string sequence element, a set element,
\* respectively; a string element does not count.
C15_NestedIffShapeRecurs ==
    (call.fn = "is_nested" /\ args.item.py \in {"dict", "list", "tuple", "frozenset"}) =>
        outcome = Return(PyBool(Recurs(args.item)))

ContainerFns == {"has_contents", "containers.is_nested", "list_types"}

\* A target that is no mapping, sequence, set or tuple.
Unsupported(item) ==
    Bases(type(item)) \cap {"Mapping", "Sequence", "Set", "tuple"} = {}

Parts(fn) ==
    IF fn = "has_traits"
    THEN <<has_attributes(args.item, OrEmpty(args.attributes), args.raise_error, args.match_all),
           has_methods(args.item, OrEmpty(args.methods), args.raise_error, args.match_all),
           has_properties(args.item, OrEmpty(args.properties), args.raise_error,
                          args.match_all)>>
    ELSE <<src_has_attributes(args.item, OrEmpty(args.attributes), args.raise_error,
                              args.match_all),
           src_has_methods(args.item, OrEmpty(args.methods), args.raise_error, args.match_all),
           src_has_properties(args.item, OrEmpty(args.properties), args.raise_error,
                              args.match_all),
           src_has_objects(args.item, OrEmpty(args.objects), args.raise_error,
                           args.match_all)>>

\* C17: has_traits returns True exactly when each of its composite checks,
\* called with the same raise_error and match_all, returns True; when all of
\* them return a value it returns their conjunction; and it raises only what
\* one of them raises.
C17_TraitsIsConjunction ==
    call.fn \in {"has_traits", "src_has_traits"} =>
        LET parts == Parts(call.fn) IN
        /\ (outcome = Return(True)) <=> \A i \in DOMAIN parts : parts[i] = Return(True)
        /\ (\A i \in DOMAIN parts : ~Raises(parts[i])) =>
                outcome = Return(PyBool(\A i \in DOMAIN parts : parts[i] = Return(True)))
        /\ Raises(outcome) => \E i \in DOMAIN parts : parts[i] = outcome

\* has_traits has returned False for an instance that has the attribute list
\* (none asked) and the methods (none asked) but not all of the two
\* properties asked for.
C17_Witness ==
    /\ call.fn = "has_traits"
    /\ args.item = "an_instance"
    /\ args.attributes = None
    /\ args.methods = None
    /\ args.properties = PyList(<<"list_something", "nope">>)
    /\ args.raise_error = False
    /\ args.match_all = True
    /\ outcome = Return(False)

MapFns == {"map_attributes", "map_methods", "map_properties", "map_variables",
           "src_map_methods"}

\* The place of a name in the order dir() lists names in.
DirRank(n) == CHOOSE i \in DOMAIN DirOrder : DirOrder[i] = n

\* C18: each map_X accessor returns a mapping from each name of the kind, in
\* the order dir() gives them, to the member of the target with that name;
\* the private names are in it exactly under include_private.
C18_MapIsNamesToMembers ==
    call.fn \in MapFns =>
        /\ ~Raises(outcome)
        /\ outcome.val.py = "dict"
        /\ \A i \in DOMAIN outcome.val.pairs :
                /\ outcome.val.pairs[i][2] = getattr(args.item, outcome.val.pairs[i][1])
                /\ IsPrivate(outcome.val.pairs[i][1]) => args.include_private
                /\ \A j \in DOMAIN outcome.val.pairs :
                        i < j => DirRank(outcome.val.pairs[i][1])
                                    < DirRank(outcome.val.pairs[j][1])
        /\ call.fn = "map_attributes" =>
                {outcome.val.pairs[i][1] : i \in DOMAIN outcome.val.pairs} =
                    {n \in AttributeNames \cup {"__class__"} :
                        hasattr(args.item, n) /\ (IsPrivate(n) => args.include_private)}
        /\ call.fn \in {"map_methods", "src_map_methods"} =>
                {outcome.val.pairs[i][1] : i \in DOMAIN outcome.val.pairs} =
                    {n \in AttributeNames :
                        hasattr(args.item, n) /\ getattr(args.item, n).kind = "method"}

DiskFns == {"list_paths", "list_files", "list_folders", "list_modules"}

\* The paths of a returned list.
Listed(o) ==
    {IF o.val.items[i].py = "module" THEN o.val.items[i].file ELSE o.val.items[i].parts :
        i \in DOMAIN o.val.items}

\* The paths of the entries directly inside 'item', and at any depth below it.
Direct(tree) == {e.path : e \in {x \in tree : Len(x.path) = 1}}

Below(tree) == {e.path : e \in tree}

\* The entries an enumeration is about.
Wanted(fn, tree, p) ==
    CASE fn = "list_paths" -> TRUE
      [] fn = "list_files" -> \E e \in tree : e.path = p /\ e.kind = "file"
      [] fn = "list_folders" -> \E e \in tree : e.path = p /\ e.kind = "folder"
      [] fn = "list_modules" ->
            /\ \E e \in tree : e.path = p /\ e.kind = "file"
            /\ suffix_of(p) \in MODULE_EXTENSIONS

\* C19: an enumeration called with recursive None takes the value
\* configuration.RECURSIVE has at the time of the call; when the value is false
\* only entries directly inside the folder are returned, and when it is true
\* the entries of every nested folder are returned as well.
C19_RecursiveFollowsGlobal ==
    [][(configuration_RECURSIVE' = configuration_RECURSIVE /\ call'.fn \in DiskFns) =>
        LET deep == IF args.recursive = None
                    THEN configuration_RECURSIVE = True
                    ELSE args.recursive = True
        IN /\ ~deep => Listed(outcome') \subseteq Direct(args.tree)
           /\ (deep /\ args.suffix = "*") =>
                \A p \in Below(args.tree) :
                    Wanted(call'.fn, args.tree, p) => p \in Listed(outcome')]_vars

\* C20: with the default suffix list_paths returns every entry directly inside
\* the folder, list_folders every folder and list_files every file directly
\* inside it, whatever the name, and every entry directly inside it is in
\* exactly one of list_files and list_folders.
C20_EveryEntryListed ==
    /\ (call.fn \in {"list_paths", "list_files", "list_folders"}
            /\ args.recursive = None /\ args.suffix = "*") =>
            \A p \in Direct(args.tree) :
                Wanted(call.fn, args.tree, p) => p \in Listed(outcome)
    /\ call.fn \in {"list_files", "list_folders"} => \A p \in Direct(args.tree) :
            LET files == list_files(args.tree, None, "*", configuration_RECURSIVE)
                folders == list_folders(args.tree, None, configuration_RECURSIVE)
            IN (\E i \in DOMAIN files : files[i] = p)
                    # (\E i \in DOMAIN folders : folders[i] = p)

---------------------------------------------------------------------------
(* C21..C30                                                                *)

\* The listed paths of the folder that exist, are files and have a module
\* suffix, in the order they are listed.
ModuleFiles ==
    SelectSeq(list_paths(args.tree, args.recursive, "*", configuration_RECURSIVE),
              LAMBDA p : /\ \E e \in args.tree : e.path = p /\ e.kind = "file"
                         /\ suffix_of(p) \in MODULE_EXTENSIONS)

MapDiskFns == {"map_paths", "map_files", "map_folders", "map_modules"}

\* The path behind a value of a mapping: a module stands for its file.
PathOf(v) == IF v.py = "module" THEN v.file ELSE v.parts

\* The number of paths the enumeration behind a mapping lists.
ListedCount(fn) ==
    CASE fn = "map_paths" ->
            Len(list_paths(args.tree, args.recursive, "*", configuration_RECURSIVE))
      [] fn = "map_files" ->
            Len(list_files(args.tree, args.recursive, "*", configuration_RECURSIVE))
      [] fn = "map_folders" ->
            Len(list_folders(args.tree, args.recursive, configuration_RECURSIVE))
      [] fn = "map_modules" ->
            Len(list_modules(args.tree, args.recursive, FALSE, configuration_RECURSIVE))

\* C30: in the mapping a map_X enumeration returns every key is the name of
\* the path it maps to (the stem of a file, the name of a folder), and there is
\* one entry for each listed path.
C30_KeysNameTheirPaths ==
    [][(configuration_RECURSIVE' = configuration_RECURSIVE /\ call'.fn \in MapDiskFns) =>
        /\ \A i \in DOMAIN outcome'.val.pairs :
                outcome'.val.pairs[i][1] =
                    IF \E e \in args.tree :
                            e.path = PathOf(outcome'.val.pairs[i][2]) /\ e.kind = "folder"
                    THEN Name(PathOf(outcome'.val.pairs[i][2]))
                    ELSE stem_of(PathOf(outcome'.val.pairs[i][2]))
        /\ Len(outcome'.val.pairs) = ListedCount(call'.fn)]_vars

\* The wrapper class the factory is to pick for a target.
CategoryWrapper(item) ==
    CASE item.py = "module" -> "ModuleInspector"
      [] item.py \in {"Path", "str"} -> "PackageInspector"
      [] item.py = "type" -> "ClassInspector"
      [] OTHER -> "InstanceInspector"

\* C22: the factory returns the wrapper of the target's category (module,
\* then path or str, then class, then any other object), holding the target
\* as its item.
C22_FactorySelectsByCategory ==
    (call.fn = "Inspector" /\ frames = <<>>) =>
        /\ ~Raises(outcome)
        /\ outcome.val.py = CategoryWrapper(args.item)
        /\ outcome.val.item = args.item

\* C28: a construction hands over to one subclass once: the factory's
\* __new__ never runs for a subclass, and the construction does not end in
\* an error.
C28_FactoryEnteredOnce ==
    /\ \A i \in DOMAIN frames : frames[i].cls = "Inspector"
    /\ call.fn = "Inspector" => ~Raises(outcome)

\* C23: the field operations raise TypeError whenever the target is neither a
\* dataclass nor a dataclass instance, whatever raise_error is; on a dataclass
\* they do not raise TypeError, and return a value when raise_error is False.
FieldFns ==
    {"is_field", "has_fields", "name_fields", "map_fields",
     "objects_has_fields", "objects_name_fields", "objects_map_fields"}

IsTypeError(o) == o.tag = "raise" /\ o.exc = "TypeError"

C23_FieldsRequireDataclass ==
    call.fn \in FieldFns =>
        /\ ~is_dataclass(args.item) => IsTypeError(outcome)
        /\ is_dataclass(args.item) =>
              /\ ~IsTypeError(outcome)
              /\ args.raise_error = False => outcome.tag = "return"

\* C24: name_fields of a dataclass is the list of its declared fields in
\* declaration order, without the ClassVar members and, unless
\* include_private, without the names that begin with '_'.
DeclaredFields(item, include_private) ==
    SelectSeq(item.declared,
              LAMBDA n : n \notin ClassVars /\ (include_private \/ ~IsPrivate(n)))

C24_NameFieldsInDeclarationOrder ==
    (call.fn \in {"name_fields", "objects_name_fields"} /\ is_dataclass(args.item)) =>
        outcome = Return(PyList(DeclaredFields(args.item, args.include_private)))

\* C25: on a type T and a name n that resolves on it, is_class_method(T, n)
\* with raise_error = False returns True when the first class of T's
\* method-resolution order that declares n declares a classmethod, and False
\* for an instance method, a staticmethod, a plain function, a property and a
\* data attribute.
C25_ClassMethodByDescriptor ==
    (OnName /\ call.fn = "is_class_method" /\ isclass(args.item)
        /\ hasattr(args.item, args.names[1]) /\ args.raise_error = False) =>
        outcome = Return(PyBool(ClassLookup(args.item, args.names[1]) = "classmethod"))

\* C26: name_methods and name_properties on a type return, each once, exactly
\* the names of dir(T) that are methods, respectively properties, of T, minus
\* the names that begin with '_' unless include_private.
NameFns == {"name_methods", "name_properties", "src_name_methods", "src_name_properties"}

HoldsOf(fn, item, n) ==
    IF fn \in {"name_methods", "src_name_methods"}
    THEN getattr(item, n).kind = "method"
    ELSE ClassLookup(ClassOf(item), n) = "property"

C26_NamesAreTheFilteredMembers ==
    (call.fn \in NameFns /\ isclass(args.item)) =>
        /\ outcome.tag = "return"
        /\ outcome.val.py = "list"
        /\ \A i, j \in DOMAIN outcome.val.items :
                outcome.val.items[i] = outcome.val.items[j] => i = j
        /\ ListedNames(outcome) =
                {n \in ListedNames(Return(PyList(dir(args.item)))) :
                    /\ HoldsOf(call.fn, args.item, n)
                    /\ args.include_private \/ ~IsPrivate(n)}

\* C29: has_traits with only the attributes list given, raise_error = False
\* and match_all True or False, has the outcome of has_attributes on the same
\* target, list, raise_error and match_all.
OnlyAttributes(a) ==
    /\ a.attributes # None
    /\ a.methods = None
    /\ a.properties = None
    /\ a.raise_error = False
    /\ a.match_all \in Bools

C29_OmittedListsImposeNothing ==
    /\ (call.fn = "has_traits" /\ OnlyAttributes(args)) =>
            outcome = has_attributes(args.item, args.attributes.items,
                                     args.raise_error, args.match_all)
    /\ (call.fn = "src_has_traits" /\ OnlyAttributes(args) /\ args.objects = None) =>
            outcome = src_has_attributes(args.item, args.attributes.items,
                                         args.raise_error, args.match_all)

\* C27: whatever reporter calls and caller modifications of returned values
\* came before, a report_list, report_name or report_map call on a falsy value
\* with a falsy raise_error returns an empty list, respectively an empty
\* mapping.
C27_DefaultsStayEmpty ==
    [][(call'.fn \in {"report_list", "report_map", "report_name"}
          /\ defaults' = defaults
          /\ ~Truthy(args.value) /\ ~Truthy(args.raise_error)) =>
            outcome' = Return(EmptyDefault(call'.fn))]_vars

===========================================================================
